---- MODULE Spec2Model ----
(***************************************************************************)
(* Ingestion-and-liveness core of the telemetry server:                    *)
(*   server/mqtt-client.ts       MqttClientService (connections, batcher,  *)
(*                               liveness monitor, shutdown)               *)
(*   server/cleanup-scheduler.ts CleanupScheduler                          *)
(*   server/storage.ts           DatabaseStorage (the repository)          *)
(*   server/db.ts                the single MySQL connection and the       *)
(*                               process start-up / gracefulShutdown       *)
(*                                                                         *)
(* Execution model.  The server is one Node.js process: a handler runs     *)
(* without interruption until it returns or reaches an `await`.  Each      *)
(* action below is one such synchronous segment.  Every storage call goes  *)
(* through the one connection created in db.ts:8, which runs its commands  *)
(* one at a time in the order they were issued: dbQueue is that command    *)
(* queue, and the action that completes the head command also runs the     *)
(* continuation of the handler awaiting it.                                *)
(***************************************************************************)
EXTENDS Integers, Sequences, FiniteSets, TLC

(* ------------------------------ bounds -------------------------------- *)
\* accepted messages per behaviour
MaxMsgs == 3
\* The size threshold of the batch buffer.  The code's BATCH_SIZE is 100
\* (mqtt-client.ts:42); it is only ever compared with the buffer's length,
\* and is scaled down here so that the buffer can reach it.
BATCH_SIZE == 3
\* liveness-monitor ticks per behaviour
MaxSweeps == 2
\* clock advances per behaviour
MaxAdvances == 3
\* messages per behaviour while the liveness monitor is observed
MaxLiveMsgs == 2
\* mqtt.connect calls per device
MaxAttempts == 4
\* cleanup scheduler invocations (ticks, runCleanup, setEnabled) per behaviour
MaxCleanups == 2
MaxParseMsgs == 2
\* calls of start() and of stop()
MaxStarts == 2
\* storage commands issued and not completed, where every writer of a status runs
MaxPending == 1

\* mqtt-client.ts:44 (ms)
DEVICE_TIMEOUT_CHECK_INTERVAL_MS == 10000
\* mqtt-client.ts:45 (ms)
DEVICE_OFFLINE_THRESHOLD_MS == 10000

\* cleanup-scheduler.ts:6
CLEANUP_INTERVAL_DAYS == 2
\* cleanup-scheduler.ts:9 (5.5 h in ms)
IST_OFFSET_MS == 19800000
\* cleanup-scheduler.ts:10 (ms)
CHECK_INTERVAL_MS == 60000
\* cleanup-scheduler.ts:53 (24 * 60 * 60 * 1000)
DayMs == 86400000

Devices == {"D1", "D2"}

\* db.ts:156-157: the two signals gracefulShutdown is registered for; each is
\* delivered at most once in a behaviour
Signals == {"SIGTERM", "SIGINT"}

\* the order in which getDevices returns the rows (storage.ts:624-626)
DevOrder == <<"D1", "D2">>

VARIABLES
  now,                 \* the wall clock (ms), read by new Date() / Date.now()
  proc,                \* "running" | "exited"
  exitCode,            \* argument of process.exit, -1 while running
  httpServer,          \* "listening" | "draining" | "closed"
  shutdowns,           \* signal -> position of the gracefulShutdown it started
  devices,             \* table devices: deviceId -> [status, lastSeen, isActive]
  deviceData,          \* table device_data, in insertion order
  offlineEvents,       \* table device_offline_events, in insertion order
  dbQueue,             \* commands issued on the connection, not yet completed
  clients,             \* MqttClientService.clients: devices with an open client
  batchBuffer,         \* MqttClientService.batchBuffer
  flushes,             \* flushBatch invocations that swapped out a batch
  batchFlushInterval,  \* TRUE while the periodic flush timer is set
  deviceTimeoutMonitorInterval, \* TRUE while the liveness timer is set
  latestReadingsCache, \* deviceId -> <<>> or <<[alcoholLevel, timestamp, alertStatus]>>
  events,              \* log of the calls made, in the order they were made
  nextRid,             \* identity of the next reading object (1, 2, ...)
  sweeps,              \* checkDeviceTimeouts invocations, in the order of their ticks
  advances,            \* clock advances so far
  conns,               \* deviceId -> state of the device's broker connection cycle
  cleanupSchedule,     \* table cleanup_schedule: <<>> or <<the row of the task>>
  cleanups,            \* checkAndRunCleanup / runCleanup invocations
  intervalId,          \* TRUE while the cleanup scheduler's timer is set
  failedRids           \* readings for which a createDeviceData call has failed

vars == <<now, proc, exitCode, httpServer, shutdowns, devices, deviceData,
          offlineEvents, dbQueue, clients, batchBuffer, flushes,
          batchFlushInterval, deviceTimeoutMonitorInterval,
          latestReadingsCache, events, nextRid, sweeps, advances, conns,
          cleanupSchedule, cleanups, intervalId, failedRids>>

(* --------------------------- pure helpers ----------------------------- *)
Range(s) == {s[i] : i \in 1..Len(s)}

Rids(s) == {s[i].rid : i \in 1..Len(s)}

\* mqtt-client.ts:24-32
\* the thresholds compared with > instead of >=
calculateAlertStatusStrict(alcoholLevel) ==
  IF alcoholLevel > 2500 THEN "Completely Drunk"
  ELSE IF alcoholLevel > 1700 THEN "Moderate Drunk"
  ELSE "Normal"

\* mqtt-client.ts:24-32
calculateAlertStatus(alcoholLevel) ==
  IF alcoholLevel >= 2500 THEN "Completely Drunk"
  ELSE IF alcoholLevel >= 1700 THEN "Moderate Drunk"
  ELSE "Normal"

(***************************************************************************)
(* Payloads.  A payload is described by what JSON.parse and parseFloat     *)
(* make of its text:                                                       *)
(*   form "object"   JSON text of an object; `fields` maps each property   *)
(*                   present to what parseFloat gives for it (<<>> = NaN)  *)
(*   form "json"     JSON text that is not an object with properties: a    *)
(*                   number such as 1800, a string, true, null, an array   *)
(*   form "text"     not JSON; `num` is what parseFloat gives for the      *)
(*                   text (<<>> = NaN), e.g. "1800 ppm" -> <<1800>>        *)
(***************************************************************************)
ObjPayload(field, n) == [form |-> "object", fields |-> (field :> <<n>>), num |-> <<>>]

JsonPayload(n) == [form |-> "json", fields |-> <<>>, num |-> <<n>>]

TextPayload(num) == [form |-> "text", fields |-> <<>>, num |-> num]

\* JSON text that is neither an object nor a number: true, null, "abc"
JsonOther == [form |-> "json", fields |-> <<>>, num |-> <<>>]

\* parseFloat(x) || 0   (mqtt-client.ts:483-489)
FloatOrZero(v) == IF v = <<>> THEN 0 ELSE v[1]

\* mqtt-client.ts:475-502: <<>> when the message is dropped, else <<alcohol_level>>
ParseMessage(p) ==
  IF p.form = "object" THEN
    LET has(f) == f \in DOMAIN p.fields
    IN  IF has("alcohol_level") THEN <<FloatOrZero(p.fields["alcohol_level"])>>
        ELSE IF has("Index") THEN <<FloatOrZero(p.fields["Index"])>>
        ELSE IF has("level") THEN <<FloatOrZero(p.fields["level"])>>
        ELSE IF has("value") THEN <<FloatOrZero(p.fields["value"])>>
        ELSE <<0>>
  ELSE IF p.form = "json" THEN <<0>>
  ELSE p.num

(* ------------------- the synchronous memory record -------------------- *)
(* The statements of one synchronous segment are composed over a record    *)
(* of the in-memory state they touch.                                      *)
Mem == [cache |-> latestReadingsCache, events |-> events, buf |-> batchBuffer,
        fl |-> flushes, q |-> dbQueue]

Commit(m) ==
  /\ latestReadingsCache' = m.cache
  /\ events' = m.events
  /\ batchBuffer' = m.buf
  /\ flushes' = m.fl
  /\ dbQueue' = m.q

Event(type, rid, dev) == [type |-> type, rid |-> rid, dev |-> dev, status |-> ""]

\* a call of sensorDataBroadcaster (mqtt-client.ts:522-526) with its arguments
SensorEvent(r) ==
  [type |-> "sensor", rid |-> r.rid, dev |-> r.deviceId, status |-> "",
   alcoholLevel |-> r.alcoholLevel, alertStatus |-> r.alertStatus,
   timestamp |-> r.timestamp]

\* a call of webSocketBroadcaster with the device as read back by updateDevice
DeviceEvent(dev, status) == [type |-> "device", rid |-> 0, dev |-> dev, status |-> status]

InsertOp(f) == [op |-> "createDeviceData", f |-> f]

\* `then` names the continuation awaiting the result
UpdateDeviceOp(d, updates, then) ==
  [op |-> "updateDevice", dev |-> d, updates |-> updates, then |-> then]

ThenBroadcast == [k |-> "broadcast", id |-> 0]

ThenSweep(s) == [k |-> "sweep", id |-> s]

\* the offline marking at the end of the protocol ladder (mqtt-client.ts:337-344)
ThenLadder == [k |-> "ladder", id |-> 0]

\* the offline marking of an error handler (mqtt-client.ts:286-294, 419-427)
ThenError == [k |-> "error", id |-> 0]

GetDevicesOp(then) == [op |-> "getDevices", then |-> then]

\* logDeviceOfflineEvent(deviceId, new Date()): `at` is the clock at the call
LogOfflineOp(d, at, then) ==
  [op |-> "logDeviceOfflineEvent", dev |-> d, at |-> at, then |-> then]

\* flushBatch without `this.batchBuffer = []`: the batch stays in the buffer
flushBatchNoSwap(m, retryOnError, caller) ==
  IF Len(m.buf) = 0 THEN m
  ELSE [m EXCEPT
          !.fl = Append(@, [input |-> m.buf, i |-> 1, failedItems |-> <<>>,
                            successCount |-> 0, retryOnError |-> retryOnError,
                            caller |-> caller, done |-> FALSE]),
          !.q = Append(@, InsertOp(Len(m.fl) + 1))]

\* mqtt-client.ts:123-130 and the first createDeviceData call of 132-138
flushBatch(m, retryOnError, caller) ==
  IF Len(m.buf) = 0 THEN m
  ELSE [m EXCEPT
          !.buf = <<>>,
          !.fl = Append(@, [input |-> m.buf, i |-> 1, failedItems |-> <<>>,
                            successCount |-> 0, retryOnError |-> retryOnError,
                            caller |-> caller, done |-> FALSE]),
          !.q = Append(@, InsertOp(Len(m.fl) + 1))]

\* mqtt-client.ts:513-517
setLatestReading(m, r) ==
  [m EXCEPT !.cache[r.deviceId] =
     <<[alcoholLevel |-> r.alcoholLevel, timestamp |-> r.timestamp,
        alertStatus |-> r.alertStatus]>>]

\* mqtt-client.ts:520-529 (the broadcasters are injected before initialize:
\* part_001:74-75)
broadcastSensorData(m, r) ==
  [m EXCEPT !.events = Append(@, SensorEvent(r))]

\* mqtt-client.ts:532-537
pushToBatch(m, r) ==
  [m EXCEPT !.buf = Append(@, r),
            !.events = Append(@, Event("enqueue", r.rid, r.deviceId))]

\* the size test written with > instead of >=
flushIfFullOffByOne(m) ==
  IF Len(m.buf) > BATCH_SIZE THEN flushBatch(m, FALSE, "size") ELSE m

\* mqtt-client.ts:540-544
flushIfFull(m) ==
  IF Len(m.buf) >= BATCH_SIZE THEN flushBatch(m, FALSE, "size") ELSE m

\* the update of an accepted message naming the status alone
markOnlineKeepLastSeen(m, d) ==
  [m EXCEPT !.q = Append(@, UpdateDeviceOp(d, [status |-> "online"], ThenBroadcast))]

\* mqtt-client.ts:547-557: the update is issued, not awaited
markOnline(m, d) ==
  [m EXCEPT !.q = Append(@, UpdateDeviceOp(d, [status |-> "online", lastSeen |-> <<now>>],
                                           ThenBroadcast))]

\* the reading queued for persistence before it is broadcast
ingestPushFirst(m, d, level) ==
  LET r == [rid |-> nextRid, deviceId |-> d, alcoholLevel |-> level,
            alertStatus |-> calculateAlertStatus(level), timestamp |-> now]
  IN  markOnline(flushIfFull(broadcastSensorData(pushToBatch(setLatestReading(m, r), r), r)), d)

\* mqtt-client.ts:506-557, for an accepted message
ingest(m, d, level) ==
  LET r == [rid |-> nextRid, deviceId |-> d, alcoholLevel |-> level,
            alertStatus |-> calculateAlertStatus(level), timestamp |-> now]
  IN  markOnline(flushIfFull(pushToBatch(broadcastSensorData(setLatestReading(m, r), r), r)), d)

(* ------------------------------ actions ------------------------------- *)
Running == proc = "running"

memVars == <<latestReadingsCache, events, batchBuffer, flushes, dbQueue>>
procVars == <<proc, exitCode, httpServer, shutdowns>>
timerVars == <<batchFlushInterval, deviceTimeoutMonitorInterval>>
tableVars == <<devices, deviceData, offlineEvents>>
liveVars == <<sweeps, advances>>
connVars == <<conns>>
cleanVars == <<cleanupSchedule, cleanups>>

\* mqtt-client.ts:300-302, 469-564: a message on the open client of device d
handleMessage(d, p) ==
  /\ Running
  /\ d \in clients
  /\ nextRid <= MaxMsgs
  /\ LET parsed == ParseMessage(p)
     IN  IF parsed = <<>> THEN UNCHANGED <<memVars, nextRid>>
         ELSE /\ Commit(ingest(Mem, d, parsed[1]))
              /\ nextRid' = nextRid + 1
  /\ UNCHANGED <<now, liveVars, connVars, cleanVars, intervalId, procVars, tableVars, clients, timerVars, failedRids>>

\* mqtt-client.ts:115-121: a tick of the periodic flush timer
PeriodicFlush ==
  /\ Running
  /\ batchFlushInterval
  /\ Len(batchBuffer) > 0
  /\ Commit(flushBatch(Mem, FALSE, "timer"))
  /\ UNCHANGED <<now, liveVars, connVars, cleanVars, intervalId, procVars, tableVars, clients, timerVars, nextRid, failedRids>>

\* storage.ts:667-674: UPDATE devices SET ... ; a field not named is kept
applyUpdates(row, updates) ==
  [status |-> IF "status" \in DOMAIN updates THEN updates.status ELSE row.status,
   lastSeen |-> IF "lastSeen" \in DOMAIN updates THEN updates.lastSeen ELSE row.lastSeen,
   isActive |-> row.isActive]

\* the failed readings put back into the buffer by every flush
flushAfterInsertAlwaysRetry(m, f, ok) ==
  LET fr == m.fl[f]
      item == fr.input[fr.i]
      fr1 == IF ok THEN [fr EXCEPT !.successCount = @ + 1]
             ELSE [fr EXCEPT !.failedItems = Append(@, item)]
      m1 == IF ok THEN [m EXCEPT !.events = Append(@, Event("persist", item.rid, item.deviceId))]
            ELSE m
  IN  IF fr.i < Len(fr.input)
      THEN [m1 EXCEPT !.fl[f] = [fr1 EXCEPT !.i = @ + 1],
                      !.q = Append(Tail(@), InsertOp(f))]
      ELSE [m1 EXCEPT !.fl[f] = [fr1 EXCEPT !.done = TRUE],
                      !.q = Tail(@),
                      !.buf = IF Len(fr1.failedItems) > 0
                              THEN fr1.failedItems \o @ ELSE @]

\* the loop of flushBatch leaving at the first createDeviceData that throws
flushAfterInsertStopOnError(m, f, ok) ==
  LET fr == m.fl[f]
      item == fr.input[fr.i]
      fr1 == IF ok THEN [fr EXCEPT !.successCount = @ + 1]
             ELSE [fr EXCEPT !.failedItems = Append(@, item)]
      m1 == IF ok THEN [m EXCEPT !.events = Append(@, Event("persist", item.rid, item.deviceId))]
            ELSE m
  IN  IF ok /\ fr.i < Len(fr.input)
      THEN [m1 EXCEPT !.fl[f] = [fr1 EXCEPT !.i = @ + 1],
                      !.q = Append(Tail(@), InsertOp(f))]
      ELSE [m1 EXCEPT !.fl[f] = [fr1 EXCEPT !.done = TRUE],
                      !.q = Tail(@),
                      !.buf = IF Len(fr1.failedItems) > 0 /\ fr1.retryOnError
                              THEN fr1.failedItems \o @ ELSE @]

\* mqtt-client.ts:132-151, from the completion of one createDeviceData call
\* to the next call or to the return
flushAfterInsert(m, f, ok) ==
  LET fr == m.fl[f]
      item == fr.input[fr.i]
      fr1 == IF ok THEN [fr EXCEPT !.successCount = @ + 1]
             ELSE [fr EXCEPT !.failedItems = Append(@, item)]
      m1 == IF ok THEN [m EXCEPT !.events = Append(@, Event("persist", item.rid, item.deviceId))]
            ELSE m
  IN  IF fr.i < Len(fr.input)
      THEN [m1 EXCEPT !.fl[f] = [fr1 EXCEPT !.i = @ + 1],
                      !.q = Append(Tail(@), InsertOp(f))]
      ELSE [m1 EXCEPT !.fl[f] = [fr1 EXCEPT !.done = TRUE],
                      !.q = Tail(@),
                      !.buf = IF Len(fr1.failedItems) > 0 /\ fr1.retryOnError
                              THEN fr1.failedItems \o @ ELSE @]

\* db.ts:142-148, cleanup-scheduler.ts:160-166: disconnect() has returned to
\* gracefulShutdown, which stops the cleanup scheduler and calls process.exit(0)
exitAfterDisconnect(h) ==
  /\ proc' = "exited"
  /\ exitCode' = 0
  /\ shutdowns' = [shutdowns EXCEPT ![h].pc = "exited"]
  /\ intervalId' = FALSE
  /\ UNCHANGED httpServer

\* the gracefulShutdown invocations whose disconnect() awaits flush f
AwaitingFlush(f) ==
  {h \in Signals : shutdowns[h].pc = "flushing" /\ shutdowns[h].f = f}

\* the head command is a createDeviceData; `ok` is whether the INSERT succeeds
\* (storage.ts:731-732)
createDeviceDataDone(ok) ==
  /\ Running
  /\ Len(dbQueue) > 0
  /\ Head(dbQueue).op = "createDeviceData"
  /\ LET f == Head(dbQueue).f
         item == flushes[f].input[flushes[f].i]
         m == flushAfterInsert(Mem, f, ok)
     IN  /\ Commit(m)
         /\ deviceData' = IF ok
                THEN Append(deviceData, [rid |-> item.rid, deviceId |-> item.deviceId,
                                         alcoholLevel |-> item.alcoholLevel,
                                         alertStatus |-> item.alertStatus,
                                         timestamp |-> now])
                ELSE deviceData
         /\ failedRids' = IF ok THEN failedRids ELSE failedRids \cup {item.rid}
         /\ IF m.fl[f].done /\ AwaitingFlush(f) # {}
            THEN exitAfterDisconnect(CHOOSE h \in AwaitingFlush(f) : TRUE)
            ELSE UNCHANGED <<procVars, intervalId>>
  /\ UNCHANGED <<now, liveVars, connVars, cleanVars, devices, offlineEvents, clients, timerVars, nextRid>>

createDeviceDataOk == createDeviceDataDone(TRUE)

createDeviceDataFail == createDeviceDataDone(FALSE)

\* the head command is an updateDevice (storage.ts:667-674); its continuation
\* broadcasts the row read back (mqtt-client.ts:550-554)
updateDeviceDone ==
  /\ Running
  /\ Len(dbQueue) > 0
  /\ Head(dbQueue).op = "updateDevice"
  /\ Head(dbQueue).then.k = "broadcast"
  /\ LET c == Head(dbQueue)
         row == applyUpdates(devices[c.dev], c.updates)
     IN  /\ devices' = [devices EXCEPT ![c.dev] = row]
         /\ events' = Append(events, DeviceEvent(c.dev, row.status))
  /\ dbQueue' = Tail(dbQueue)
  /\ UNCHANGED <<now, liveVars, connVars, cleanVars, intervalId, procVars, deviceData, offlineEvents, clients, batchBuffer, flushes,
                 timerVars, latestReadingsCache, nextRid, failedRids>>

(* ------------------------- graceful shutdown -------------------------- *)
(* http.Server.close(cb): on a listening server it stops listening and     *)
(* calls cb() once the open connections have ended; on a server that is    *)
(* not listening any more it calls cb(err) when the server has closed.     *)

\* db.ts:129-139, 156-157: SIGTERM or SIGINT; nothing stops a second signal
\* from starting gracefulShutdown again
gracefulShutdown(h) ==
  /\ Running
  /\ shutdowns[h].pc = "idle"
  /\ IF httpServer = "listening"
     THEN /\ httpServer' = "draining"
          /\ shutdowns' = [shutdowns EXCEPT ![h].pc = "closing"]
     ELSE /\ httpServer' = httpServer
          /\ shutdowns' = [shutdowns EXCEPT ![h].pc = "closeFailing"]
  /\ UNCHANGED <<now, liveVars, connVars, cleanVars, intervalId, proc, exitCode, tableVars, dbQueue, clients, batchBuffer, flushes,
                 timerVars, latestReadingsCache, events, nextRid, failedRids>>

\* client.end() (mqtt-client.ts:590): the attempt in flight, the open
\* connection or the client's own reconnect is given up; a timer set by an
\* error handler (267, 410) is no part of the client and stays pending
endClient(c) ==
  IF c.pc \in {"connecting", "connected", "autoReconnect"} THEN [c EXCEPT !.pc = "ended"] ELSE c

\* db.ts:137, 141-142 and mqtt-client.ts:566-594: the server has closed;
\* disconnect() clears both timers, ends every client, clears the registry
\* and waits 100 ms
disconnectBegin(h) ==
  /\ Running
  /\ shutdowns[h].pc = "closing"
  /\ httpServer' = "closed"
  /\ shutdowns' = [shutdowns EXCEPT ![h].pc = "settling"]
  /\ batchFlushInterval' = FALSE
  /\ deviceTimeoutMonitorInterval' = FALSE
  /\ clients' = {}
  /\ conns' = [d \in Devices |-> IF d \in clients THEN endClient(conns[d]) ELSE conns[d]]
  /\ events' = Append(events, Event("disconnect", 0, ""))
  /\ UNCHANGED <<now, liveVars, cleanVars, intervalId, proc, exitCode, tableVars, dbQueue, batchBuffer, flushes,
                 latestReadingsCache, nextRid, failedRids>>

\* db.ts:136, 149-152: server.close reported an error; the catch exits
shutdownError(h) ==
  /\ Running
  /\ shutdowns[h].pc = "closeFailing"
  /\ httpServer = "closed"
  /\ proc' = "exited"
  /\ exitCode' = 1
  /\ shutdowns' = [shutdowns EXCEPT ![h].pc = "exited"]
  /\ UNCHANGED <<now, liveVars, connVars, cleanVars, intervalId, httpServer, tableVars, dbQueue, clients, batchBuffer, flushes,
                 timerVars, latestReadingsCache, events, nextRid, failedRids>>

\* mqtt-client.ts:594-603: the 100 ms have passed; flushBatch(true) is called
\* and awaited.  With an empty buffer it returns 0 at once.
disconnectFlush(h) ==
  /\ Running
  /\ shutdowns[h].pc = "settling"
  /\ LET m == flushBatch(Mem, TRUE, "disconnect")
     IN  /\ Commit([m EXCEPT !.events = Append(@, Event("shutdownFlush", 0, ""))])
         /\ IF Len(batchBuffer) = 0
            THEN exitAfterDisconnect(h)
            ELSE /\ shutdowns' = [shutdowns EXCEPT ![h] = [pc |-> "flushing", f |-> Len(m.fl)]]
                 /\ UNCHANGED <<proc, exitCode, httpServer, intervalId>>
  /\ UNCHANGED <<now, liveVars, connVars, cleanVars, tableVars, clients, timerVars, nextRid, failedRids>>

(* -------------------- the batcher's specification --------------------- *)
AcceptedPayload == ObjPayload("alcohol_level", 1800)

DroppedPayload == TextPayload(<<>>)

InitCommon ==
  /\ now = 0
  /\ proc = "running"
  /\ exitCode = -1
  /\ httpServer = "listening"
  /\ shutdowns = [h \in Signals |-> [pc |-> "idle", f |-> 0]]
  /\ deviceData = <<>>
  /\ offlineEvents = <<>>
  /\ dbQueue = <<>>
  /\ batchBuffer = <<>>
  /\ flushes = <<>>
  /\ latestReadingsCache = [d \in Devices |-> <<>>]
  /\ events = <<>>
  /\ nextRid = 1
  /\ sweeps = <<>>
  /\ advances = 0
  /\ cleanupSchedule = <<>>
  /\ cleanups = <<>>
  /\ failedRids = {}

\* after initialize() (mqtt-client.ts:58-68): every active device has an
\* open client and both timers are set
\* a device for which connectToDevice has not been called
NoConn == [pc |-> "none", kind |-> "", version |-> 0, attempts |-> 0, ladder |-> 0,
           onlyProtocol |-> TRUE, exhausted |-> FALSE, superseded |-> 0,
           subscribed |-> FALSE]

\* a device whose client is connected and subscribed
OpenConn == [NoConn EXCEPT !.pc = "connected", !.kind = "initial", !.version = 4,
                           !.attempts = 1, !.onlyProtocol = FALSE]

InitBatch ==
  /\ InitCommon
  /\ conns = [d \in Devices |-> OpenConn]
  /\ intervalId = TRUE
  /\ devices = [d \in Devices |-> [status |-> "online", lastSeen |-> <<0>>, isActive |-> TRUE]]
  /\ clients = Devices
  /\ batchFlushInterval = TRUE
  /\ deviceTimeoutMonitorInterval = TRUE

NextBatch ==
  \/ \E p \in {AcceptedPayload, DroppedPayload} : handleMessage("D1", p)
  \/ PeriodicFlush
  \/ createDeviceDataOk
  \/ createDeviceDataFail
  \/ updateDeviceDone
  \/ \E h \in Signals : gracefulShutdown(h)
  \/ \E h \in Signals : disconnectBegin(h)
  \/ \E h \in Signals : shutdownError(h)
  \/ \E h \in Signals : disconnectFlush(h)

SpecBatch == InitBatch /\ [][NextBatch]_vars

(* -------------------------- payload decoding -------------------------- *)
\* the payloads a device may send: objects with each recognised field, an
\* object with none of them ({"temperature":25}), the bare numeric text 1800,
\* JSON that is neither (true), text that is no number (abc), and text that
\* is not JSON but starts with a number (1800 ppm)
Payloads ==
  {ObjPayload("alcohol_level", 1699), ObjPayload("Index", 1700),
   ObjPayload("level", 2499), ObjPayload("value", 2500),
   ObjPayload("temperature", 25), JsonPayload(1800), JsonOther,
   TextPayload(<<>>), TextPayload(<<1800>>)}

parseMessage(p) ==
  /\ nextRid <= MaxParseMsgs
  /\ handleMessage("D1", p)

NextParse ==
  \/ \E p \in Payloads : parseMessage(p)
  \/ PeriodicFlush
  \/ createDeviceDataOk
  \/ updateDeviceDone

SpecParse == InitBatch /\ [][NextParse]_vars

(* ------------------------ the liveness monitor ------------------------ *)
\* mqtt-client.ts:92: a null lastSeen counts as the epoch
lastSeenTime(row) == IF row.lastSeen = <<>> THEN 0 ELSE row.lastSeen[1]

\* mqtt-client.ts:90-95, on a row of the snapshot and the sweep's Date.now()
timedOut(row, t) ==
  /\ row.isActive
  /\ row.status = "online"
  /\ t - lastSeenTime(row) > DEVICE_OFFLINE_THRESHOLD_MS

\* the position in DevOrder of the first device after position `from` that
\* the loop of mqtt-client.ts:89-109 treats as timed out; 0 if there is none
nextTimedOut(snap, t, from) ==
  LET later == {i \in (from + 1)..Len(DevOrder) : timedOut(snap[DevOrder[i]], t)}
  IN  IF later = {} THEN 0 ELSE CHOOSE i \in later : \A j \in later : i <= j

\* mqtt-client.ts:89-100: the loop runs on from position `from` until it
\* awaits the updateDevice of a timed-out device, or ends
sweepContinue(sw, s, q, from) ==
  LET i == nextTimedOut(sw.snap, sw.t, from)
  IN  IF i = 0
      THEN [sw |-> [sw EXCEPT !.pc = "done"], q |-> q]
      ELSE [sw |-> [sw EXCEPT !.pc = "updating", !.cur = i],
            q |-> Append(q, UpdateDeviceOp(DevOrder[i], [status |-> "offline"], ThenSweep(s)))]

\* when the liveness timer last fired; it is set at time 0
lastMonitorTick == IF sweeps = <<>> THEN 0 ELSE sweeps[Len(sweeps)].at

\* the clock moves on by dt ms
Advance(dt) ==
  /\ Running
  /\ advances < MaxAdvances
  /\ now' = now + dt
  /\ advances' = advances + 1
  /\ UNCHANGED <<sweeps, connVars, cleanVars, intervalId, procVars, tableVars, memVars, clients, timerVars, nextRid, failedRids>>

\* mqtt-client.ts:75-86: a tick of the liveness timer, not earlier than its
\* period after the previous one; checkDeviceTimeouts issues getDevices.
\* Nothing makes a tick wait for the sweep of the tick before it.
MonitorTick ==
  /\ Running
  /\ deviceTimeoutMonitorInterval
  /\ Len(sweeps) < MaxSweeps
  /\ now >= lastMonitorTick + DEVICE_TIMEOUT_CHECK_INTERVAL_MS
  /\ sweeps' = Append(sweeps, [pc |-> "getDevices", at |-> now, t |-> 0, cur |-> 0,
                               snap |-> [d \in Devices |-> <<>>]])
  /\ dbQueue' = Append(dbQueue, GetDevicesOp(ThenSweep(Len(sweeps) + 1)))
  /\ UNCHANGED <<now, advances, connVars, cleanVars, intervalId, procVars, tableVars, clients, batchBuffer, flushes, timerVars,
                 latestReadingsCache, events, nextRid, failedRids>>

\* storage.ts:624-626, mqtt-client.ts:86-100: getDevices returns the rows; the
\* sweep reads the clock and walks the rows
getDevicesDone ==
  /\ Running
  /\ Len(dbQueue) > 0
  /\ Head(dbQueue).op = "getDevices"
  /\ LET s == Head(dbQueue).then.id
         r == sweepContinue([sweeps[s] EXCEPT !.snap = devices, !.t = now], s,
                            Tail(dbQueue), 0)
     IN  /\ sweeps' = [sweeps EXCEPT ![s] = r.sw]
         /\ dbQueue' = r.q
  /\ UNCHANGED <<now, advances, connVars, cleanVars, intervalId, procVars, tableVars, clients, batchBuffer, flushes, timerVars,
                 latestReadingsCache, events, nextRid, failedRids>>

\* mqtt-client.ts:100-103: the sweep's updateDevice has completed; it calls
\* logDeviceOfflineEvent with the current time
sweepUpdateDone ==
  /\ Running
  /\ Len(dbQueue) > 0
  /\ Head(dbQueue).op = "updateDevice"
  /\ Head(dbQueue).then.k = "sweep"
  /\ LET c == Head(dbQueue)
         s == c.then.id
     IN  /\ devices' = [devices EXCEPT ![c.dev] = applyUpdates(devices[c.dev], c.updates)]
         /\ sweeps' = [sweeps EXCEPT ![s].pc = "logging"]
         /\ dbQueue' = Append(Tail(dbQueue), LogOfflineOp(c.dev, now, ThenSweep(s)))
  /\ UNCHANGED <<now, advances, connVars, cleanVars, intervalId, procVars, deviceData, offlineEvents, clients, batchBuffer,
                 flushes, timerVars, latestReadingsCache, events, nextRid, failedRids>>

\* storage.ts:751-756, mqtt-client.ts:103-109: the event row is inserted; the
\* sweep broadcasts the row its update read back and goes on with the loop
logOfflineDone ==
  /\ Running
  /\ Len(dbQueue) > 0
  /\ Head(dbQueue).op = "logDeviceOfflineEvent"
  /\ Head(dbQueue).then.k = "sweep"
  /\ LET c == Head(dbQueue)
         s == c.then.id
         r == sweepContinue(sweeps[s], s, Tail(dbQueue), sweeps[s].cur)
     IN  /\ offlineEvents' = Append(offlineEvents,
                                    [deviceId |-> c.dev, offlineAt |-> c.at, by |-> c.then])
         /\ events' = Append(events, DeviceEvent(c.dev, "offline"))
         /\ sweeps' = [sweeps EXCEPT ![s] = r.sw]
         /\ dbQueue' = r.q
  /\ UNCHANGED <<now, advances, connVars, cleanVars, intervalId, procVars, devices, deviceData, clients, batchBuffer, flushes,
                 timerVars, latestReadingsCache, nextRid, failedRids>>

\* rows of the devices table when the monitor starts
LiveRows ==
  {[status |-> "online", lastSeen |-> <<0>>, isActive |-> TRUE],
   [status |-> "online", lastSeen |-> <<0>>, isActive |-> FALSE],
   [status |-> "offline", lastSeen |-> <<0>>, isActive |-> TRUE]}

\* a message from D1, the device kept alive
liveMessage ==
  /\ nextRid <= MaxLiveMsgs
  /\ handleMessage("D1", AcceptedPayload)

InitLive ==
  /\ InitCommon
  /\ conns = [d \in Devices |-> OpenConn]
  /\ intervalId = TRUE
  /\ devices \in [Devices -> LiveRows]
  /\ clients = Devices
  /\ batchFlushInterval = TRUE
  /\ deviceTimeoutMonitorInterval = TRUE

NextLive ==
  \/ liveMessage
  \/ updateDeviceDone
  \/ \E dt \in {1, DEVICE_TIMEOUT_CHECK_INTERVAL_MS} : Advance(dt)
  \/ MonitorTick
  \/ getDevicesDone
  \/ sweepUpdateDone
  \/ logOfflineDone

SpecLive == InitLive /\ [][NextLive]_vars

\* storage.ts:751-756 throws: the INSERT of the event row fails.  In a sweep
\* the error leaves the loop and is logged by the catch block
\* (mqtt-client.ts:110-112), so the sweep ends; in an error handler the catch
\* block logs it (295-297, 428-430).  Nothing is appended or broadcast.
logOfflineFail ==
  /\ Running
  /\ Len(dbQueue) > 0
  /\ Head(dbQueue).op = "logDeviceOfflineEvent"
  /\ Head(dbQueue).then.k \in {"sweep", "error"}
  /\ sweeps' = IF Head(dbQueue).then.k = "sweep"
               THEN [sweeps EXCEPT ![Head(dbQueue).then.id].pc = "done"]
               ELSE sweeps
  /\ dbQueue' = Tail(dbQueue)
  /\ UNCHANGED <<now, advances, connVars, cleanVars, intervalId, procVars, devices, deviceData,
                 offlineEvents, clients, batchBuffer, flushes, timerVars,
                 latestReadingsCache, events, nextRid, failedRids>>

\* the liveness monitor with a storage that may fail to insert the event row
NextLiveFault ==
  \/ \E dt \in {1, DEVICE_TIMEOUT_CHECK_INTERVAL_MS} : Advance(dt)
  \/ MonitorTick
  \/ getDevicesDone
  \/ sweepUpdateDone
  \/ logOfflineDone
  \/ logOfflineFail

SpecLiveFault == InitLive /\ [][NextLiveFault]_vars

\* rows of the devices table when a message arrives: the three statuses the
\* service writes (mqtt-client.ts:98, 245, 307)
MsgRows ==
  {[status |-> s, lastSeen |-> <<0>>, isActive |-> TRUE] : s \in {"online", "waiting", "offline"}}

InitMsg ==
  /\ InitCommon
  /\ conns = [d \in Devices |-> OpenConn]
  /\ intervalId = TRUE
  /\ devices \in [Devices -> MsgRows]
  /\ clients = Devices
  /\ batchFlushInterval = TRUE
  /\ deviceTimeoutMonitorInterval = TRUE

\* messages of the open clients, the flushes they start and the updates
\* they issue
NextMsg ==
  \/ liveMessage
  \/ updateDeviceDone
  \/ PeriodicFlush
  \/ createDeviceDataOk
  \/ Advance(1)

SpecMsg == InitMsg /\ [][NextMsg]_vars

OfflineEventsOf(d) == {i \in 1..Len(offlineEvents) : offlineEvents[i].deviceId = d}

\* C23: a sweep writes only to a device that is active, online and silent
\* for longer than the threshold when the write is made; every other device
\* keeps its status and lastSeen, gets no OfflineEvent and no broadcast.
C23_SweepOnlyOnlineToOffline ==
  [][\A s \in 1..Len(sweeps) :
       (sweeps[s].pc = "updating" /\ sweeps'[s].pc = "logging") =>
         LET d == Head(dbQueue).dev
         IN  /\ timedOut(devices[d], now)
             /\ devices'[d].status = "offline"
             /\ devices'[d].lastSeen = devices[d].lastSeen
             /\ \A e \in Devices \ {d} : devices'[e] = devices[e]]_vars

\* the sweeps that have started and not returned
SweepsInProgress == {s \in 1..Len(sweeps) : sweeps[s].pc # "done"}

\* C22: at most one sweep of the liveness monitor is in progress at any time;
\* a tick that fires while a sweep is waiting on storage starts no second one.
C22_SweepsNeverOverlap == Cardinality(SweepsInProgress) <= 1

\* C1: a device from which no message arrives gets at most one OfflineEvent
\* from the liveness monitor: the tick that finds it timed out appends one,
\* and later ticks append no further one.
C1_TimedOutDeviceGetsOneOfflineEvent ==
  \A d \in Devices :
    latestReadingsCache[d] = <<>> => Cardinality(OfflineEventsOf(d)) <= 1

(* ----------------------- broker connections -------------------------- *)
(* conns[d]: pc is "connecting" while a client's connection attempt is in  *)
(* flight, "connected", "retryWait" while the ladder's 2 s timer is        *)
(* pending, "reconnectWait" while the 5 s timer of the timeout class is    *)
(* pending, "autoReconnect" while the client's own reconnectPeriod runs,   *)
(* "ended" when the client was ended and nothing is scheduled.  attempts   *)
(* counts the mqtt.connect attempts, ladder the calls of                   *)
(* retryWithDifferentProtocol; onlyProtocol and exhausted record whether   *)
(* every attempt so far was rejected with a protocol error and whether     *)
(* the ladder ran out.                                                     *)

\* mqtt-client.ts:222: protocolVersion of the first client (D1 is configured
\* for WS, D2 for MQTT)
InitialVersion(d) == IF d = "D1" THEN 4 ELSE 3

\* the classes told apart by the error handlers (mqtt-client.ts:262, 278, 408)
ErrorClasses == {"timeout", "protocol", "other"}

\* mqtt.connect(...) at mqtt-client.ts:231 and 368
connect(c, kind, version) ==
  [c EXCEPT !.pc = "connecting", !.kind = kind, !.version = version, !.attempts = @ + 1,
            !.subscribed = FALSE]

\* the ladder giving up one version later
ladderExhaustedLate(protocolVersion) == protocolVersion > 6

\* mqtt-client.ts:334
ladderExhausted(protocolVersion) == protocolVersion > 5

markOfflineOp(d, then) ==
  UpdateDeviceOp(d, [status |-> "offline", lastSeen |-> <<now>>], then)

\* mqtt-client.ts:333-444 up to its first await or its return: the new
\* connection state, command queue and client registry
retryWithDifferentProtocol(c, d, protocolVersion, q, cl) ==
  IF ladderExhausted(protocolVersion)
  THEN [c |-> [c EXCEPT !.pc = "ended", !.ladder = @ + 1, !.exhausted = TRUE],
        q |-> Append(q, markOfflineOp(d, ThenLadder)),
        cl |-> cl]
  ELSE [c |-> [connect(c, "ladder", protocolVersion) EXCEPT !.ladder = @ + 1],
        q |-> q,
        cl |-> cl \cup {d}]

\* mqtt-client.ts:258-298 and 404-432: the 'error' event of the client whose
\* attempt is in flight
onError(c, d, class, q, cl) ==
  LET c1 == [c EXCEPT !.onlyProtocol = @ /\ class = "protocol"]
  IN  IF c.kind = "initial"
      THEN CASE class = "timeout" ->
                  [c |-> [c1 EXCEPT !.pc = "reconnectWait"], q |-> q, cl |-> cl \ {d}]
             [] class = "protocol" ->
                  retryWithDifferentProtocol(c1, d, 4, q, cl)
             [] OTHER ->
                  [c |-> [c1 EXCEPT !.pc = "autoReconnect"],
                   q |-> Append(q, markOfflineOp(d, ThenError)), cl |-> cl]
      ELSE IF class = "protocol"
           THEN [c |-> [c1 EXCEPT !.pc = "retryWait"], q |-> q, cl |-> cl]
           ELSE [c |-> [c1 EXCEPT !.pc = "ended"],
                 q |-> Append(q, markOfflineOp(d, ThenError)), cl |-> cl]

connUnchanged ==
  UNCHANGED <<now, liveVars, cleanVars, intervalId, procVars, tableVars, batchBuffer,
              flushes, timerVars, latestReadingsCache, events, nextRid, failedRids>>

\* the broker rejects the attempt in flight with an error of the given class
connectError(d, class) ==
  /\ Running
  /\ conns[d].pc = "connecting"
  /\ (conns[d].kind = "initial" /\ class = "protocol") => conns[d].attempts < MaxAttempts
  /\ LET r == onError(conns[d], d, class, dbQueue, clients)
     IN  /\ conns' = [conns EXCEPT ![d] = r.c]
         /\ dbQueue' = r.q
         /\ clients' = r.cl
  /\ connUnchanged

\* mqtt-client.ts:410-416: the ladder's 2 s timer fires
retryTimer(d) ==
  /\ Running
  /\ conns[d].pc = "retryWait"
  /\ ladderExhausted(conns[d].version + 1) \/ conns[d].attempts < MaxAttempts
  /\ LET r == retryWithDifferentProtocol(conns[d], d, conns[d].version + 1, dbQueue, clients)
     IN  /\ conns' = [conns EXCEPT ![d] = r.c]
         /\ dbQueue' = r.q
         /\ clients' = r.cl
  /\ connUnchanged

\* mqtt-client.ts:267-273: the 5 s timer of the timeout class fires
reconnectTimer(d) ==
  /\ Running
  /\ conns[d].pc = "reconnectWait"
  /\ conns[d].attempts < MaxAttempts
  /\ conns' = [conns EXCEPT ![d] = connect(@, "initial", InitialVersion(d))]
  /\ clients' = clients \cup {d}
  /\ UNCHANGED dbQueue
  /\ connUnchanged

\* mqtt-client.ts:221: a client that was not ended reconnects by itself
autoReconnect(d) ==
  /\ Running
  /\ conns[d].pc = "autoReconnect"
  /\ conns[d].attempts < MaxAttempts
  /\ conns' = [conns EXCEPT ![d] = connect(@, "initial", @.version)]
  /\ UNCHANGED <<dbQueue, clients>>
  /\ connUnchanged

\* the subscribe callback marking the device online whatever its error argument
subscribeCallbackIgnoringError(q, d, error) ==
  Append(q, UpdateDeviceOp(d, [status |-> "online", lastSeen |-> <<now>>], ThenBroadcast))

\* mqtt-client.ts:237-255, 384-401: the callback of client.subscribe; on
\* success it issues the online update, whose continuation broadcasts
subscribeCallback(q, d, error) ==
  IF error THEN q
  ELSE Append(q, UpdateDeviceOp(d, [status |-> "online", lastSeen |-> <<now>>], ThenBroadcast))

\* mqtt-client.ts:233-256, 380-402: the broker accepts and the subscription
\* succeeds; the device is marked online
connack(d) ==
  /\ Running
  /\ conns[d].pc = "connecting"
  /\ conns' = [conns EXCEPT ![d] = [@ EXCEPT !.pc = "connected", !.onlyProtocol = FALSE,
                                             !.subscribed = TRUE]]
  /\ dbQueue' = subscribeCallback(dbQueue, d, FALSE)
  /\ UNCHANGED clients
  /\ connUnchanged

\* mqtt-client.ts:233-240, 380-386: the broker accepts the connection and the
\* subscription fails; the client stays connected without a subscription
subscribeFail(d) ==
  /\ Running
  /\ conns[d].pc = "connecting"
  /\ conns' = [conns EXCEPT ![d] = [@ EXCEPT !.pc = "connected", !.onlyProtocol = FALSE]]
  /\ dbQueue' = subscribeCallback(dbQueue, d, TRUE)
  /\ UNCHANGED clients
  /\ connUnchanged

\* the connection of a connected client breaks: the first client reconnects
\* (reconnectPeriod 5000), a ladder client does not (reconnectPeriod 0)
connectionLost(d) ==
  /\ Running
  /\ conns[d].pc = "connected"
  /\ conns' = [conns EXCEPT ![d].pc = IF conns[d].kind = "initial" THEN "autoReconnect"
                                      ELSE "ended"]
  /\ UNCHANGED <<dbQueue, clients>>
  /\ connUnchanged

\* mqtt-client.ts:287-291, 337-341, 420-424: the offline update has completed;
\* logDeviceOfflineEvent is called with the current time
offlineUpdateDone ==
  /\ Running
  /\ Len(dbQueue) > 0
  /\ Head(dbQueue).op = "updateDevice"
  /\ Head(dbQueue).then.k \in {"ladder", "error"}
  /\ LET c == Head(dbQueue)
     IN  /\ devices' = [devices EXCEPT ![c.dev] = applyUpdates(devices[c.dev], c.updates)]
         /\ dbQueue' = Append(Tail(dbQueue), LogOfflineOp(c.dev, now, c.then))
  /\ UNCHANGED <<now, liveVars, connVars, cleanVars, intervalId, procVars, deviceData,
                 offlineEvents, clients, batchBuffer, flushes, timerVars,
                 latestReadingsCache, events, nextRid, failedRids>>

\* mqtt-client.ts:291-294, 341-344, 424-427: the event row is inserted and the
\* row read back by the update is broadcast
offlineLogDone ==
  /\ Running
  /\ Len(dbQueue) > 0
  /\ Head(dbQueue).op = "logDeviceOfflineEvent"
  /\ Head(dbQueue).then.k \in {"ladder", "error"}
  /\ LET c == Head(dbQueue)
     IN  /\ offlineEvents' = Append(offlineEvents,
                                    [deviceId |-> c.dev, offlineAt |-> c.at, by |-> c.then])
         /\ events' = Append(events, DeviceEvent(c.dev, "offline"))
  /\ dbQueue' = Tail(dbQueue)
  /\ UNCHANGED <<now, liveVars, connVars, cleanVars, intervalId, procVars, devices,
                 deviceData, clients, batchBuffer, flushes, timerVars,
                 latestReadingsCache, nextRid, failedRids>>

\* rows of the devices table when initialize() runs
ConnRows ==
  {[status |-> "offline", lastSeen |-> <<>>, isActive |-> TRUE],
   [status |-> "online", lastSeen |-> <<0>>, isActive |-> TRUE]}

\* mqtt-client.ts:58-68, 166-176: connectToDevice has been called for every
\* active device and the timers are set
InitConn ==
  /\ InitCommon
  /\ devices \in [Devices -> ConnRows]
  /\ conns = [d \in Devices |-> connect(NoConn, "initial", InitialVersion(d))]
  /\ clients = Devices
  /\ batchFlushInterval = TRUE
  /\ deviceTimeoutMonitorInterval = TRUE
  /\ intervalId = TRUE

\* D1's broker answers in every way; D2's broker rejects every attempt with
\* a protocol error
NextConn ==
  \/ \E class \in ErrorClasses : connectError("D1", class)
  \/ connectError("D2", "protocol")
  \/ \E d \in Devices : retryTimer(d)
  \/ reconnectTimer("D1")
  \/ autoReconnect("D1")
  \/ connack("D1")
  \/ connectionLost("D1")
  \/ updateDeviceDone
  \/ offlineUpdateDone
  \/ offlineLogDone

SpecConn == InitConn /\ [][NextConn]_vars

\* the commands in the queue that concern device d
PendingFor(d) ==
  {i \in 1..Len(dbQueue) : dbQueue[i].op \in {"updateDevice", "logDeviceOfflineEvent"}
                           /\ dbQueue[i].dev = d}

OfflineBroadcastsOf(d) ==
  {i \in 1..Len(events) : events[i] = DeviceEvent(d, "offline")}

\* mqtt-client.ts:304-317: the 'disconnect' handler, registered on the client
\* created by connectToDevice; retryWithDifferentProtocol (368-439) registers
\* 'connect', 'error' and 'message' only
onDisconnect(c, d, q) ==
  IF c.kind = "initial"
  THEN Append(q, UpdateDeviceOp(d, [status |-> "waiting", lastSeen |-> <<now>>], ThenBroadcast))
  ELSE q

\* the broker disconnects the connected client of d: the 'disconnect' event
\* is emitted and the connection closes; the first client reconnects by
\* itself, a ladder client does not
disconnect(d) ==
  /\ Running
  /\ conns[d].pc = "connected"
  /\ conns' = [conns EXCEPT ![d].pc = IF conns[d].kind = "initial" THEN "autoReconnect"
                                      ELSE "ended"]
  /\ dbQueue' = onDisconnect(conns[d], d, dbQueue)
  /\ UNCHANGED clients
  /\ connUnchanged

\* the connection manager with brokers that disconnect their clients
NextDisc ==
  \/ \E class \in ErrorClasses : connectError("D1", class)
  \/ retryTimer("D1")
  \/ reconnectTimer("D1")
  \/ autoReconnect("D1")
  \/ connack("D1")
  \/ disconnect("D1")
  \/ updateDeviceDone
  \/ offlineUpdateDone
  \/ offlineLogDone
  \/ Advance(1)

SpecDisc == InitConn /\ [][NextDisc]_vars

\* the connection manager of D1 while the process is shut down by a signal
NextStop ==
  \/ \E class \in ErrorClasses : connectError("D1", class)
  \/ retryTimer("D1")
  \/ reconnectTimer("D1")
  \/ autoReconnect("D1")
  \/ connack("D1")
  \/ gracefulShutdown("SIGTERM")
  \/ disconnectBegin("SIGTERM")
  \/ disconnectFlush("SIGTERM")
  \/ updateDeviceDone
  \/ offlineUpdateDone
  \/ offlineLogDone

SpecStop == InitConn /\ [][NextStop]_vars

\* disconnect() has been called and has not returned
Disconnecting == \E h \in Signals : shutdowns[h].pc \in {"settling", "flushing"}

\* mqtt-client.ts:300-302: a message arrives on the client of D1, which is
\* connected and subscribed to the device's topic
subscribedMessage ==
  /\ conns["D1"].pc = "connected"
  /\ conns["D1"].subscribed
  /\ liveMessage

\* every writer of a device's status: the first connection of D1, which is
\* accepted or refused and may be disconnected, the messages of D1 and the
\* liveness monitor
NextCore ==
  \/ Len(dbQueue) < MaxPending /\ connectError("D1", "other")
  \/ Len(dbQueue) < MaxPending /\ connack("D1")
  \/ Len(dbQueue) < MaxPending /\ disconnect("D1")
  \/ Len(dbQueue) < MaxPending /\ subscribedMessage
  \/ Len(dbQueue) < MaxPending /\ MonitorTick
  \/ updateDeviceDone
  \/ offlineUpdateDone
  \/ offlineLogDone
  \/ getDevicesDone
  \/ sweepUpdateDone
  \/ logOfflineDone
  \/ Advance(DEVICE_TIMEOUT_CHECK_INTERVAL_MS + 1)

\* D2 has never been reached: it is offline without a lastSeen
InitCore ==
  /\ InitConn
  /\ devices["D2"].status = "offline"

SpecCore == InitCore /\ [][NextCore]_vars

\* the connection manager with subscriptions that may fail
NextSub ==
  \/ NextConn
  \/ subscribeFail("D1")

SpecSub == InitConn /\ [][NextSub]_vars

\* the online updates in the queue
OnlineOps(q) ==
  {k \in 1..Len(q) : q[k].op = "updateDevice" /\ q[k].updates.status = "online"}

\* C26: an online update is issued only in a step in which a connection
\* attempt is accepted and its subscription succeeds, and carries lastSeen =
\* now; a device row becomes online only when that update completes, together
\* with the broadcast; a step in which the subscription fails issues nothing
\* and leaves device rows and broadcasts as they were.
C26_OnlineOnlyAfterSubscribe ==
  [][/\ Cardinality(OnlineOps(dbQueue')) > Cardinality(OnlineOps(dbQueue)) =>
          \E d \in Devices :
            /\ conns[d].pc = "connecting"
            /\ conns'[d].pc = "connected"
            /\ conns'[d].subscribed
            /\ dbQueue'[Len(dbQueue')] =
                 UpdateDeviceOp(d, [status |-> "online", lastSeen |-> <<now>>], ThenBroadcast)
     /\ \A d \in Devices :
          (devices'[d] # devices[d] /\ devices'[d].status = "online") =>
            /\ Head(dbQueue).dev = d
            /\ Head(dbQueue).updates.status = "online"
            /\ devices'[d].lastSeen = Head(dbQueue).updates.lastSeen
            /\ events' = Append(events, DeviceEvent(d, "online"))
     /\ \A d \in Devices :
          (conns[d].pc = "connecting" /\ conns'[d].pc = "connected" /\ ~conns'[d].subscribed) =>
            UNCHANGED <<devices, dbQueue, events, offlineEvents>>]_vars

\* C26 witness: the connection of D1 was accepted and its subscription failed;
\* D1 is still offline with no lastSeen, nothing is pending and nothing was
\* broadcast for it
C26_Witness ==
  /\ conns["D1"].pc = "connected"
  /\ ~conns["D1"].subscribed
  /\ devices["D1"] = [status |-> "offline", lastSeen |-> <<>>, isActive |-> TRUE]
  /\ PendingFor("D1") = {}
  /\ \A i \in 1..Len(events) : events[i].dev # "D1"

\* the logDeviceOfflineEvent calls in the queue
LogOps(q) == {k \in 1..Len(q) : q[k].op = "logDeviceOfflineEvent"}

\* C24: when the offline write of an error handler or of the exhausted ladder
\* completes and goes on to log an OfflineEvent, the device was online
\* immediately before that write; on a device that is already offline the
\* write changes nothing and no OfflineEvent follows.
C24_OfflineWriteIdempotent ==
  [][(/\ Len(dbQueue) > 0
      /\ Head(dbQueue).op = "updateDevice"
      /\ Head(dbQueue).then.k \in {"ladder", "error"}
      /\ Cardinality(LogOps(dbQueue')) > Cardinality(LogOps(dbQueue))) =>
        devices[Head(dbQueue).dev].status = "online"]_vars

\* C5: for a device whose every connection attempt is rejected with a protocol
\* error, the ladder marks the device offline after exactly 3 connection
\* attempts (the first one and protocol versions 4 and 5; the third call of
\* the ladder gives up), with one OfflineEvent and one broadcast; before that
\* nothing marks it, and after that no attempt is in flight or scheduled.
C5_LadderOfflineAfterThreeAttempts ==
  \A d \in Devices :
    (conns[d].attempts > 0 /\ conns[d].onlyProtocol) =>
      /\ conns[d].attempts <= 3
      /\ ~conns[d].exhausted =>
           /\ PendingFor(d) = {}
           /\ OfflineEventsOf(d) = {}
           /\ conns[d].pc \in {"connecting", "retryWait"}
      /\ conns[d].exhausted =>
           /\ conns[d].attempts = 3
           /\ conns[d].ladder = 3
           /\ conns[d].pc = "ended"
           /\ Cardinality(PendingFor(d)) + Cardinality(OfflineEventsOf(d)) = 1
           /\ PendingFor(d) = {} =>
                /\ devices[d].status = "offline"
                /\ Cardinality(OfflineBroadcastsOf(d)) = 1

\* C5 witness: the ladder of D2 ran out after protocol errors only, and D2 is
\* offline with its OfflineEvent logged and the broadcast made
C5_Witness ==
  /\ conns["D2"].onlyProtocol
  /\ conns["D2"].exhausted
  /\ conns["D2"].attempts = 3
  /\ devices["D2"].status = "offline"
  /\ Cardinality(OfflineEventsOf("D2")) = 1
  /\ Cardinality(OfflineBroadcastsOf("D2")) = 1

\* a client object that has not been ended: its attempt is in flight, it is
\* connected, or it is between two reconnects of its own (reconnectPeriod 5000)
openClient(c) == c.pc \in {"connecting", "connected", "autoReconnect"}

\* mqtt-client.ts:328-330 with 178-325: connectToDevice makes a new client
\* and stores it in the registry (line 320); it neither looks up nor ends the
\* client the registry held. superseded counts the clients of the device
\* that are still open and that the registry no longer refers to. Called
\* while no timer of the device is pending.
addDeviceConnection(d) ==
  /\ Running
  /\ conns[d].pc \in {"none", "connecting", "connected", "autoReconnect", "ended"}
  /\ conns[d].attempts < MaxAttempts
  /\ conns' = [conns EXCEPT ![d] =
                 [connect(@, "initial", InitialVersion(d)) EXCEPT
                    !.superseded = IF openClient(conns[d]) THEN @ + 1 ELSE @]]
  /\ clients' = clients \cup {d}
  /\ UNCHANGED dbQueue
  /\ connUnchanged

NextAdd ==
  \/ NextConn
  \/ addDeviceConnection("D1")

SpecAdd == InitConn /\ [][NextAdd]_vars

\* the open broker connections of device d
openConnections(d) == conns[d].superseded + (IF openClient(conns[d]) THEN 1 ELSE 0)

\* C11: every device has at most one open broker connection, and when it has
\* one the registry holds an entry for the device and that entry is the open
\* client (no open client exists that the registry has lost).
C11_OneOpenConnectionPerDevice ==
  \A d \in Devices :
    /\ openConnections(d) <= 1
    /\ openClient(conns[d]) => d \in clients
    /\ conns[d].superseded = 0

(* ------------------------ the cleanup scheduler ----------------------- *)
(* cleanups[i] is one invocation of checkAndRunCleanup ("tick"),           *)
(* runCleanup ("manual") or setEnabled: pc is its position, at the clock   *)
(* at its start, due the nextScheduledTime a tick compared with, t the     *)
(* `now` it uses as execution time, count what clearAllDeviceData counted, *)
(* ret what runCleanup returned, atCall the number of readings at its      *)
(* start and open the wipes in progress at its start.                      *)

\* storage.ts:1026-1027, 78-79 of schema.ts: the columns are TIMESTAMP without
\* fractional digits; MySQL rounds a stored time to the second
toTimestamp(t) == ((t + 500) \div 1000) * 1000

\* cleanup-scheduler.ts:31-46, on a server whose local time is UTC: midnight
\* of the current IST-shifted day, plus the interval, shifted back
calculateNextScheduledTime(t) ==
  ((t + IST_OFFSET_MS) \div DayMs) * DayMs + CLEANUP_INTERVAL_DAYS * DayMs - IST_OFFSET_MS

\* the next time computed one day after the execution
calculateNextScheduledTimeDaily(lastExecutionTime) == lastExecutionTime + DayMs

\* cleanup-scheduler.ts:51-54
calculateNextScheduledTimeFromLast(lastExecutionTime) ==
  lastExecutionTime + CLEANUP_INTERVAL_DAYS * DayMs

\* a count that finds nothing
countNone(rows) == 0

\* storage.ts:857-858: SELECT count(*) FROM device_data
countResult(rows) == Len(rows)

GetScheduleOp(i) == [op |-> "getCleanupSchedule", id |-> i]

CountOp(i) == [op |-> "countDeviceData", id |-> i]

DeleteOp(i) == [op |-> "deleteDeviceData", id |-> i]

UpdateScheduleOp(updates, i) == [op |-> "updateCleanupSchedule", updates |-> updates, id |-> i]

\* an update of the schedule that also switches it off
applyScheduleUpdatesDisabling(row, updates) ==
  [lastExecutionTime |-> IF "lastExecutionTime" \in DOMAIN updates
                         THEN <<toTimestamp(updates.lastExecutionTime)>>
                         ELSE row.lastExecutionTime,
   nextScheduledTime |-> IF "nextScheduledTime" \in DOMAIN updates
                         THEN <<toTimestamp(updates.nextScheduledTime)>>
                         ELSE row.nextScheduledTime,
   intervalDays |-> row.intervalDays,
   isEnabled |-> FALSE]

\* storage.ts:1058-1063: UPDATE cleanup_schedule SET ...; a field not named is kept
applyScheduleUpdates(row, updates) ==
  [lastExecutionTime |-> IF "lastExecutionTime" \in DOMAIN updates
                         THEN <<toTimestamp(updates.lastExecutionTime)>>
                         ELSE row.lastExecutionTime,
   nextScheduledTime |-> IF "nextScheduledTime" \in DOMAIN updates
                         THEN <<toTimestamp(updates.nextScheduledTime)>>
                         ELSE row.nextScheduledTime,
   intervalDays |-> row.intervalDays,
   isEnabled |-> IF "isEnabled" \in DOMAIN updates THEN updates.isEnabled ELSE row.isEnabled]

\* the wipes that have started and not ended
OpenWipes ==
  {j \in 1..Len(cleanups) : /\ cleanups[j].kind \in {"tick", "manual"}
                            /\ cleanups[j].pc \notin {"done", "skipped", "failed"}}

NewCleanup(kind, pc) ==
  [kind |-> kind, pc |-> pc, at |-> now, due |-> 0, t |-> 0, count |-> 0, ret |-> 0,
   atCall |-> Len(deviceData), open |-> OpenWipes, err |-> FALSE,
   arg |-> <<>>]

\* when the scheduler's timer last fired; it is set at time 0
lastCleanupTick ==
  LET ticks == {j \in 1..Len(cleanups) : cleanups[j].kind = "tick"}
  IN  IF ticks = {} THEN 0
      ELSE cleanups[CHOOSE j \in ticks : \A k \in ticks : k <= j].at

cleanFrame ==
  UNCHANGED <<now, liveVars, connVars, procVars, devices, offlineEvents,
              clients, batchBuffer, flushes, timerVars, latestReadingsCache, events,
              nextRid, failedRids>>

\* cleanup-scheduler.ts:150-152, 89-91: a tick of the scheduler's timer;
\* nothing makes it wait for an invocation still in progress
CleanupTick ==
  /\ Running
  /\ intervalId
  /\ Len(cleanups) < MaxCleanups
  /\ now >= lastCleanupTick + CHECK_INTERVAL_MS
  /\ cleanups' = Append(cleanups, NewCleanup("tick", "getSchedule"))
  /\ dbQueue' = Append(dbQueue, GetScheduleOp(Len(cleanups) + 1))
  /\ UNCHANGED <<cleanupSchedule, deviceData, intervalId>>
  /\ cleanFrame

\* cleanup-scheduler.ts:171-175 (POST /api/cleanup/run, part_001:596-606)
runCleanup ==
  /\ Running
  /\ Len(cleanups) < MaxCleanups
  /\ cleanups' = Append(cleanups, NewCleanup("manual", "counting"))
  /\ dbQueue' = Append(dbQueue, CountOp(Len(cleanups) + 1))
  /\ UNCHANGED <<cleanupSchedule, deviceData, intervalId>>
  /\ cleanFrame

\* an update that also clears the boundary
setEnabledUpdatesAndClear(enabled) == [isEnabled |-> enabled, nextScheduledTime |-> 0]

\* cleanup-scheduler.ts:255-257: the fields setEnabled passes to the update
setEnabledUpdates(enabled) == [isEnabled |-> enabled]

\* cleanup-scheduler.ts:253-257 (POST /api/cleanup/enable, part_001:620-635);
\* arg is the value the call was made with
setEnabled(enabled) ==
  /\ Running
  /\ Len(cleanups) < MaxCleanups
  /\ cleanups' = Append(cleanups, [NewCleanup("setEnabled", "updating") EXCEPT
                                     !.arg = <<enabled>>])
  /\ dbQueue' = Append(dbQueue, UpdateScheduleOp(setEnabledUpdates(enabled), Len(cleanups) + 1))
  /\ UNCHANGED <<cleanupSchedule, deviceData, intervalId>>
  /\ cleanFrame

\* the test of the schedule without its isEnabled part
shouldSkipIgnoringEnabled(schedule) ==
  \/ schedule = <<>>
  \/ schedule[1].nextScheduledTime = <<>>

\* cleanup-scheduler.ts:95: !schedule || !schedule.isEnabled || !schedule.nextScheduledTime
shouldSkip(schedule) ==
  \/ schedule = <<>>
  \/ ~schedule[1].isEnabled
  \/ schedule[1].nextScheduledTime = <<>>

\* cleanup-scheduler.ts:147-152: when the check that start() awaits returns,
\* start() sets the timer; the timer is already set when a later tick returns
timerAfter(cl) == intervalId \/ cl.kind \in {"tick", "start"}

\* cleanup-scheduler.ts:91-111: the schedule has been read; the tick returns
\* unless the schedule is enabled and due, else it starts the wipe
getCleanupScheduleDone ==
  /\ Running
  /\ Len(dbQueue) > 0
  /\ Head(dbQueue).op = "getCleanupSchedule"
  /\ cleanups[Head(dbQueue).id].kind \in {"tick", "start"}
  /\ cleanups[Head(dbQueue).id].pc = "getSchedule"
  /\ LET i == Head(dbQueue).id
         skip == shouldSkip(cleanupSchedule)
     IN  IF skip \/ now < cleanupSchedule[1].nextScheduledTime[1]
         THEN /\ cleanups' = [cleanups EXCEPT ![i].pc = "skipped"]
              /\ dbQueue' = Tail(dbQueue)
              /\ intervalId' = timerAfter(cleanups[i])
         ELSE /\ cleanups' = [cleanups EXCEPT ![i].pc = "counting", ![i].t = now,
                                              ![i].due = cleanupSchedule[1].nextScheduledTime[1]]
              /\ dbQueue' = Append(Tail(dbQueue), CountOp(i))
              /\ UNCHANGED intervalId
  /\ UNCHANGED <<cleanupSchedule, deviceData>>
  /\ cleanFrame

\* cleanup-scheduler.ts:113-120 and 176-186: clearAllDeviceData has returned;
\* runCleanup reads the clock now, the tick read it before the wipe
afterWipe(cl, i, q) ==
  LET t == IF cl.kind = "manual" THEN now ELSE cl.t
  IN  [cl |-> [cl EXCEPT !.pc = "updating", !.t = t],
       q |-> Append(q, UpdateScheduleOp(
                         [lastExecutionTime |-> t,
                          nextScheduledTime |-> calculateNextScheduledTimeFromLast(t)], i))]

\* storage.ts:857-863: the count has been read; rows are deleted only if
\* there are any
countDone ==
  /\ Running
  /\ Len(dbQueue) > 0
  /\ Head(dbQueue).op = "countDeviceData"
  /\ LET i == Head(dbQueue).id
         totalRecords == countResult(deviceData)
         cl == [cleanups[i] EXCEPT !.count = totalRecords]
         r == afterWipe(cl, i, Tail(dbQueue))
     IN  IF totalRecords > 0
         THEN /\ cleanups' = [cleanups EXCEPT ![i] = [cl EXCEPT !.pc = "deleting"]]
              /\ dbQueue' = Append(Tail(dbQueue), DeleteOp(i))
         ELSE /\ cleanups' = [cleanups EXCEPT ![i] = r.cl]
              /\ dbQueue' = r.q
  /\ UNCHANGED <<cleanupSchedule, deviceData, intervalId>>
  /\ cleanFrame

\* storage.ts:861: DELETE FROM device_data
deleteDone ==
  /\ Running
  /\ Len(dbQueue) > 0
  /\ Head(dbQueue).op = "deleteDeviceData"
  /\ LET i == Head(dbQueue).id
         r == afterWipe(cleanups[i], i, Tail(dbQueue))
     IN  /\ cleanups' = [cleanups EXCEPT ![i] = r.cl]
         /\ dbQueue' = r.q
  /\ deviceData' = <<>>
  /\ UNCHANGED <<cleanupSchedule, intervalId>>
  /\ cleanFrame

\* storage.ts:1058-1063: the UPDATE changes the task's row if there is one;
\* runCleanup then returns the count (cleanup-scheduler.ts:194)
updateCleanupScheduleDone ==
  /\ Running
  /\ Len(dbQueue) > 0
  /\ Head(dbQueue).op = "updateCleanupSchedule"
  /\ LET c == Head(dbQueue)
     IN  /\ cleanupSchedule' = IF cleanupSchedule = <<>> THEN <<>>
                               ELSE <<applyScheduleUpdates(cleanupSchedule[1], c.updates)>>
         /\ cleanups' = [cleanups EXCEPT ![c.id].pc = "done", ![c.id].ret = cleanups[c.id].count]
         /\ intervalId' = timerAfter(cleanups[c.id])
  /\ dbQueue' = Tail(dbQueue)
  /\ UNCHANGED deviceData
  /\ cleanFrame

\* the error of a failed wipe handled as if the wipe had succeeded
onWipeErrorReschedule(cl, i, q) == afterWipe(cl, i, q)

\* cleanup-scheduler.ts:129-131 and 195-198: the catch block logs; the
\* invocation ends without a schedule update, runCleanup returns 0
onWipeError(cl, i, q) == [cl |-> [cl EXCEPT !.pc = "failed", !.ret = 0], q |-> q]

\* storage.ts:857, 861: the SELECT count or the DELETE of clearAllDeviceData
\* fails with a storage error; nothing is deleted and the error is thrown to
\* the invocation that awaits it
clearAllDeviceDataFail ==
  /\ Running
  /\ Len(dbQueue) > 0
  /\ Head(dbQueue).op \in {"countDeviceData", "deleteDeviceData"}
  /\ LET i == Head(dbQueue).id
         r == onWipeError(cleanups[i], i, Tail(dbQueue))
     IN  /\ cleanups' = [cleanups EXCEPT ![i] = [r.cl EXCEPT !.err = TRUE]]
         /\ dbQueue' = r.q
         /\ intervalId' = (IF r.cl.pc = "failed" THEN timerAfter(cleanups[i]) ELSE intervalId)
  /\ UNCHANGED <<cleanupSchedule, deviceData>>
  /\ cleanFrame

\* cleanup-scheduler.ts:268-271 (POST /api/cleanup/reset-schedule,
\* part_001:637-652): resetSchedule() reads the record
resetSchedule ==
  /\ Running
  /\ Len(cleanups) < MaxCleanups
  /\ cleanups' = Append(cleanups, NewCleanup("reset", "getSchedule"))
  /\ dbQueue' = Append(dbQueue, GetScheduleOp(Len(cleanups) + 1))
  /\ UNCHANGED <<cleanupSchedule, deviceData, intervalId>>
  /\ cleanFrame

\* the new boundary always computed from the current time
resetNextFromNow(schedule, t) == calculateNextScheduledTime(t)

\* cleanup-scheduler.ts:273-283: from the last execution read if there is
\* one, else the initial-schedule value from the current time
resetNext(schedule, t) ==
  IF schedule # <<>> /\ schedule[1].lastExecutionTime # <<>>
  THEN calculateNextScheduledTimeFromLast(schedule[1].lastExecutionTime[1])
  ELSE calculateNextScheduledTime(t)

\* cleanup-scheduler.ts:273-288: the record has been read; the update of
\* nextScheduledTime and isEnabled is issued.  arg is currentSchedule, the
\* record as read, and t the clock.
getCleanupScheduleForResetDone ==
  /\ Running
  /\ Len(dbQueue) > 0
  /\ Head(dbQueue).op = "getCleanupSchedule"
  /\ cleanups[Head(dbQueue).id].kind = "reset"
  /\ LET i == Head(dbQueue).id
     IN  /\ cleanups' = [cleanups EXCEPT
                           ![i].pc = "updating", ![i].t = now,
                           ![i].arg = cleanupSchedule]
         /\ dbQueue' = Append(Tail(dbQueue),
                              UpdateScheduleOp([nextScheduledTime |-> resetNext(cleanupSchedule, now),
                                                isEnabled |-> TRUE], i))
  /\ UNCHANGED <<cleanupSchedule, deviceData, intervalId>>
  /\ cleanFrame

\* how many readings the repository holds at the start
StoredCounts == {0, 2}

StoredReading(i) ==
  [rid |-> 0 - i, deviceId |-> "D1", alcoholLevel |-> 1800,
   alertStatus |-> calculateAlertStatus(1800), timestamp |-> 0]

\* cleanup-scheduler.ts:137-152, 59-76: start() has created the schedule row,
\* found nothing due and set the timer; the repository is empty or holds
\* readings of an earlier run
InitClean ==
  /\ now = 0
  /\ proc = "running"
  /\ exitCode = -1
  /\ httpServer = "listening"
  /\ shutdowns = [h \in Signals |-> [pc |-> "idle", f |-> 0]]
  /\ \E k \in StoredCounts : deviceData = [i \in 1..k |-> StoredReading(i)]
  /\ offlineEvents = <<>>
  /\ dbQueue = <<>>
  /\ batchBuffer = <<>>
  /\ flushes = <<>>
  /\ latestReadingsCache = [d \in Devices |-> <<>>]
  /\ events = <<>>
  /\ nextRid = 1
  /\ sweeps = <<>>
  /\ advances = 0
  /\ failedRids = {}
  /\ devices = [d \in Devices |-> [status |-> "online", lastSeen |-> <<0>>, isActive |-> TRUE]]
  /\ conns = [d \in Devices |-> OpenConn]
  /\ clients = Devices
  /\ batchFlushInterval = TRUE
  /\ deviceTimeoutMonitorInterval = TRUE
  /\ intervalId = TRUE
  /\ cleanups = <<>>
  /\ cleanupSchedule = <<[lastExecutionTime |-> <<>>,
                          nextScheduledTime |-> <<toTimestamp(calculateNextScheduledTime(0))>>,
                          intervalDays |-> CLEANUP_INTERVAL_DAYS,
                          isEnabled |-> TRUE]>>

\* clock steps: to the next tick of the timer, and past a whole interval by a
\* fraction of a second
CleanSteps == {CHECK_INTERVAL_MS, CLEANUP_INTERVAL_DAYS * DayMs + 700}

NextClean ==
  \/ CleanupTick
  \/ runCleanup
  \/ setEnabled(FALSE)
  \/ getCleanupScheduleDone
  \/ countDone
  \/ deleteDone
  \/ updateCleanupScheduleDone
  \/ \E dt \in CleanSteps : Advance(dt)

SpecClean == InitClean /\ [][NextClean]_vars

\* the schedule row start() finds or has just created (cleanup-scheduler.ts:
\* 59-84): created now and enabled, or left by an earlier run of the server,
\* enabled or disabled, its boundary already passed or still ahead, with or
\* without an execution on record; no row when its creation failed
StartRows ==
  {[lastExecutionTime |-> last, nextScheduledTime |-> <<next>>,
    intervalDays |-> CLEANUP_INTERVAL_DAYS, isEnabled |-> en] :
     last \in {<<>>}, next \in {0, toTimestamp(calculateNextScheduledTime(0))},
     en \in BOOLEAN}

\* cleanup-scheduler.ts:137-144: start() has run initializeSchedule and is
\* about to make its immediate check; the timer is not set yet
InitStart ==
  /\ now = 0
  /\ proc = "running"
  /\ exitCode = -1
  /\ httpServer = "listening"
  /\ shutdowns = [h \in Signals |-> [pc |-> "idle", f |-> 0]]
  /\ \E k \in StoredCounts : deviceData = [i \in 1..k |-> StoredReading(i)]
  /\ offlineEvents = <<>>
  /\ dbQueue = <<>>
  /\ batchBuffer = <<>>
  /\ flushes = <<>>
  /\ latestReadingsCache = [d \in Devices |-> <<>>]
  /\ events = <<>>
  /\ nextRid = 1
  /\ sweeps = <<>>
  /\ advances = 0
  /\ failedRids = {}
  /\ devices = [d \in Devices |-> [status |-> "online", lastSeen |-> <<0>>, isActive |-> TRUE]]
  /\ conns = [d \in Devices |-> OpenConn]
  /\ clients = Devices
  /\ batchFlushInterval = TRUE
  /\ deviceTimeoutMonitorInterval = TRUE
  /\ intervalId = FALSE
  /\ cleanups = <<>>
  /\ cleanupSchedule \in {<<>>} \cup {<<row>> : row \in StartRows}

\* cleanup-scheduler.ts:147: the immediate check of start()
startCheck ==
  /\ Running
  /\ ~intervalId
  /\ cleanups = <<>>
  /\ cleanups' = Append(cleanups, NewCleanup("tick", "getSchedule"))
  /\ dbQueue' = Append(dbQueue, GetScheduleOp(Len(cleanups) + 1))
  /\ UNCHANGED <<cleanupSchedule, deviceData, intervalId>>
  /\ cleanFrame

(* start() and stop().  An invocation of start() is a cleanups[i] of kind  *)
(* "start": pc "returned" when the guard found the timer set, "initRead"   *)
(* and "creating" inside initializeSchedule, then the pcs of the check it  *)
(* awaits; when that check ends, start() sets the timer.  A stop() that    *)
(* cleared the timer is a cleanups[i] of kind "stop".                      *)
CreateScheduleOp(row, i) == [op |-> "createCleanupSchedule", row |-> row, id |-> i]

StartCalls == {i \in 1..Len(cleanups) : cleanups[i].kind = "start"}

StopCalls == {i \in 1..Len(cleanups) : cleanups[i].kind = "stop"}

\* cleanup-scheduler.ts:137-142, 61: start(); nothing but the timer handle,
\* which is set after the awaits, keeps a second call from going on
start ==
  /\ Running
  /\ Cardinality(StartCalls) < MaxStarts
  /\ IF intervalId
     THEN /\ cleanups' = Append(cleanups, NewCleanup("start", "returned"))
          /\ UNCHANGED dbQueue
     ELSE /\ cleanups' = Append(cleanups, NewCleanup("start", "initRead"))
          /\ dbQueue' = Append(dbQueue, GetScheduleOp(Len(cleanups) + 1))
  /\ UNCHANGED <<cleanupSchedule, deviceData, intervalId>>
  /\ cleanFrame

\* cleanup-scheduler.ts:65-75: the record initializeSchedule creates at time t
initialSchedule(t) ==
  [lastExecutionTime |-> <<>>,
   nextScheduledTime |-> <<calculateNextScheduledTime(t)>>,
   intervalDays |-> CLEANUP_INTERVAL_DAYS,
   isEnabled |-> TRUE]

\* cleanup-scheduler.ts:61-80, 144-147: initializeSchedule has read the
\* record; without one it creates it, else start() goes on to its check
initializeScheduleRead ==
  /\ Running
  /\ Len(dbQueue) > 0
  /\ Head(dbQueue).op = "getCleanupSchedule"
  /\ cleanups[Head(dbQueue).id].kind = "start"
  /\ cleanups[Head(dbQueue).id].pc = "initRead"
  /\ LET i == Head(dbQueue).id
     IN  IF cleanupSchedule = <<>>
         THEN /\ cleanups' = [cleanups EXCEPT ![i].pc = "creating"]
              /\ dbQueue' = Append(Tail(dbQueue), CreateScheduleOp(initialSchedule(now), i))
         ELSE /\ cleanups' = [cleanups EXCEPT ![i].pc = "getSchedule"]
              /\ dbQueue' = Append(Tail(dbQueue), GetScheduleOp(i))
  /\ UNCHANGED <<cleanupSchedule, deviceData, intervalId>>
  /\ cleanFrame

\* storage.ts:1043-1056, 1027: the INSERT; task_name is UNIQUE, so with a
\* record in place it fails, initializeSchedule logs the error
\* (cleanup-scheduler.ts:81-83) and start() goes on to its check
createCleanupScheduleDone ==
  /\ Running
  /\ Len(dbQueue) > 0
  /\ Head(dbQueue).op = "createCleanupSchedule"
  /\ LET c == Head(dbQueue)
     IN  /\ cleanupSchedule' =
               IF cleanupSchedule = <<>>
               THEN <<[c.row EXCEPT !.nextScheduledTime =
                                       <<toTimestamp(c.row.nextScheduledTime[1])>>]>>
               ELSE cleanupSchedule
         /\ cleanups' = [cleanups EXCEPT ![c.id].pc = "getSchedule"]
         /\ dbQueue' = Append(Tail(dbQueue), GetScheduleOp(c.id))
  /\ UNCHANGED <<deviceData, intervalId>>
  /\ cleanFrame

\* cleanup-scheduler.ts:160-166: stop() clears the timer the handle names
stop ==
  /\ Running
  /\ intervalId
  /\ Cardinality(StopCalls) < MaxStarts
  /\ intervalId' = FALSE
  /\ cleanups' = Append(cleanups, NewCleanup("stop", "done"))
  /\ UNCHANGED <<cleanupSchedule, deviceData, dbQueue>>
  /\ cleanFrame

\* the start() invocations that have called setInterval (150-152)
TimersSet ==
  {i \in StartCalls : cleanups[i].pc \in {"skipped", "done", "failed"}}

\* the interval timers that were set and not cleared
ActiveTimers == Cardinality(TimersSet) - Cardinality(StopCalls)

\* the scheduler before start(), with start() and stop() called from outside
NextBoot ==
  \/ start
  \/ stop
  \/ initializeScheduleRead
  \/ createCleanupScheduleDone
  \/ getCleanupScheduleDone
  \/ countDone
  \/ deleteDone
  \/ updateCleanupScheduleDone
  \/ Advance(CHECK_INTERVAL_MS)

SpecBoot == InitStart /\ [][NextBoot]_vars

\* the scheduler from start() on, with the enable switch used from outside
NextStart ==
  \/ startCheck
  \/ CleanupTick
  \/ \E enabled \in BOOLEAN : setEnabled(enabled)
  \/ getCleanupScheduleDone
  \/ countDone
  \/ deleteDone
  \/ updateCleanupScheduleDone
  \/ \E dt \in CleanSteps : Advance(dt)

SpecStart == InitStart /\ [][NextStart]_vars

\* the commands in the queue issued by invocation i
CommandsOf(i) == {k \in 1..Len(dbQueue) : dbQueue[k].id = i}

\* the record exists, is enabled and its boundary has been reached
DueAndEnabled ==
  /\ cleanupSchedule # <<>>
  /\ cleanupSchedule[1].isEnabled
  /\ cleanupSchedule[1].nextScheduledTime # <<>>
  /\ now >= cleanupSchedule[1].nextScheduledTime[1]

C18_SetEnabledTouchesOnlyIsEnabled ==
  [][\A i \in 1..Len(cleanups) :
       (/\ cleanups[i].kind = "setEnabled"
        /\ cleanups[i].pc = "updating"
        /\ cleanups'[i].pc = "done"
        /\ cleanupSchedule # <<>>) =>
         /\ cleanupSchedule' # <<>>
         /\ cleanupSchedule'[1].isEnabled = cleanups[i].arg[1]
         /\ cleanupSchedule'[1].nextScheduledTime = cleanupSchedule[1].nextScheduledTime
         /\ cleanupSchedule'[1].lastExecutionTime = cleanupSchedule[1].lastExecutionTime
         /\ cleanupSchedule'[1].intervalDays = cleanupSchedule[1].intervalDays]_vars

\* C18 witness: setEnabled(true) and then setEnabled(false) have completed on
\* a record whose boundary had passed; the record is disabled and its times
\* are as they were at the start
C18_Witness ==
  /\ Len(cleanups) = 2
  /\ cleanups[1].kind = "setEnabled" /\ cleanups[1].arg = <<TRUE>> /\ cleanups[1].pc = "done"
  /\ cleanups[2].kind = "setEnabled" /\ cleanups[2].arg = <<FALSE>> /\ cleanups[2].pc = "done"
  /\ cleanupSchedule # <<>>
  /\ ~cleanupSchedule[1].isEnabled
  /\ cleanupSchedule[1].nextScheduledTime = <<0>>
  /\ cleanupSchedule[1].lastExecutionTime = <<>>

\* as InitClean, with a schedule that is enabled or was disabled during an
\* earlier run of the server
InitReset ==
  /\ now = 0
  /\ proc = "running"
  /\ exitCode = -1
  /\ httpServer = "listening"
  /\ shutdowns = [h \in Signals |-> [pc |-> "idle", f |-> 0]]
  /\ \E k \in StoredCounts : deviceData = [i \in 1..k |-> StoredReading(i)]
  /\ offlineEvents = <<>>
  /\ dbQueue = <<>>
  /\ batchBuffer = <<>>
  /\ flushes = <<>>
  /\ latestReadingsCache = [d \in Devices |-> <<>>]
  /\ events = <<>>
  /\ nextRid = 1
  /\ sweeps = <<>>
  /\ advances = 0
  /\ failedRids = {}
  /\ devices = [d \in Devices |-> [status |-> "online", lastSeen |-> <<0>>, isActive |-> TRUE]]
  /\ conns = [d \in Devices |-> OpenConn]
  /\ clients = Devices
  /\ batchFlushInterval = TRUE
  /\ deviceTimeoutMonitorInterval = TRUE
  /\ intervalId = TRUE
  /\ cleanups = <<>>
  /\ \E enabled \in BOOLEAN :
     cleanupSchedule = <<[lastExecutionTime |-> <<>>,
                          nextScheduledTime |-> <<toTimestamp(calculateNextScheduledTime(0))>>,
                          intervalDays |-> CLEANUP_INTERVAL_DAYS,
                          isEnabled |-> enabled]>>

\* the tables when a wipe is made: readings or none, an OfflineEvent on
\* record, devices in different states, a schedule that is due, enabled or not
InitWipe ==
  /\ now = 0
  /\ proc = "running"
  /\ exitCode = -1
  /\ httpServer = "listening"
  /\ shutdowns = [h \in Signals |-> [pc |-> "idle", f |-> 0]]
  /\ \E k \in StoredCounts : deviceData = [i \in 1..k |-> StoredReading(i)]
  /\ offlineEvents = <<[deviceId |-> "D2", offlineAt |-> 0, by |-> ThenError]>>
  /\ dbQueue = <<>>
  /\ batchBuffer = <<>>
  /\ flushes = <<>>
  /\ latestReadingsCache = [d \in Devices |-> <<>>]
  /\ events = <<>>
  /\ nextRid = 1
  /\ sweeps = <<>>
  /\ advances = 0
  /\ failedRids = {}
  /\ devices = [d \in Devices |->
                  IF d = "D1" THEN [status |-> "online", lastSeen |-> <<0>>, isActive |-> TRUE]
                  ELSE [status |-> "offline", lastSeen |-> <<>>, isActive |-> FALSE]]
  /\ conns = [d \in Devices |-> OpenConn]
  /\ clients = Devices
  /\ batchFlushInterval = TRUE
  /\ deviceTimeoutMonitorInterval = TRUE
  /\ intervalId = TRUE
  /\ cleanups = <<>>
  /\ \E enabled \in BOOLEAN :
     cleanupSchedule = <<[lastExecutionTime |-> <<>>,
                          nextScheduledTime |-> <<0>>,
                          intervalDays |-> CLEANUP_INTERVAL_DAYS,
                          isEnabled |-> enabled]>>

\* scheduled and manual executions
NextWipe ==
  \/ CleanupTick
  \/ runCleanup
  \/ getCleanupScheduleDone
  \/ countDone
  \/ deleteDone
  \/ updateCleanupScheduleDone
  \/ \E dt \in CleanSteps : Advance(dt)

SpecWipe == InitWipe /\ [][NextWipe]_vars

\* manual runs and resets of the schedule
NextReset ==
  \/ runCleanup
  \/ resetSchedule
  \/ getCleanupScheduleForResetDone
  \/ countDone
  \/ deleteDone
  \/ updateCleanupScheduleDone
  \/ \E dt \in CleanSteps : Advance(dt)

SpecReset == InitReset /\ [][NextReset]_vars

\* C19: the step in which a resetSchedule() call completes sets isEnabled to
\* true, leaves lastExecutionTime as it was, and stores as nextScheduledTime
\* the lastExecutionTime the call read plus intervalDays x 24 h, or, when it
\* read none, the initial-schedule value for the clock it read (midnight of
\* the current day at +5:30 plus intervalDays days); when the record's
\* lastExecutionTime is still the one read, nextScheduledTime is
\* lastExecutionTime + intervalDays x 24 h.
C19_ResetScheduleRecomputesNext ==
  [][\A i \in 1..Len(cleanups) :
       (/\ cleanups[i].kind = "reset"
        /\ cleanups[i].pc = "updating"
        /\ cleanups'[i].pc = "done") =>
         LET old == cleanupSchedule[1]
             new == cleanupSchedule'[1]
             read == cleanups[i].arg[1].lastExecutionTime
             t == cleanups[i].t
             midnight == ((t + IST_OFFSET_MS) \div DayMs) * DayMs - IST_OFFSET_MS
         IN  /\ new.isEnabled
             /\ new.lastExecutionTime = old.lastExecutionTime
             /\ read # <<>> =>
                  new.nextScheduledTime = <<read[1] + old.intervalDays * DayMs>>
             /\ (read # <<>> /\ old.lastExecutionTime = read) =>
                  new.nextScheduledTime = <<new.lastExecutionTime[1] + new.intervalDays * DayMs>>
             /\ read = <<>> =>
                  /\ new.nextScheduledTime = <<midnight + old.intervalDays * DayMs>>
                  /\ midnight <= t /\ t < midnight + DayMs
                  /\ cleanups[i].at <= t /\ t <= now]_vars

\* C19 witness: on a disabled record, a reset that read the execution time of
\* an earlier manual run has completed: the record is enabled, its
\* lastExecutionTime is the one read and its boundary is one interval later
C19_Witness ==
  /\ Len(cleanups) = 2
  /\ cleanups[1].kind = "manual" /\ cleanups[1].pc = "done"
  /\ cleanups[2].kind = "reset" /\ cleanups[2].pc = "done"
  /\ ~cleanups[2].arg[1].isEnabled
  /\ cleanups[2].arg[1].lastExecutionTime = <<toTimestamp(cleanups[1].t)>>
  /\ cleanups[2].at > cleanups[1].t
  /\ cleanupSchedule[1].isEnabled
  /\ cleanupSchedule[1].lastExecutionTime = <<toTimestamp(cleanups[1].t)>>
  /\ cleanupSchedule[1].nextScheduledTime =
       <<toTimestamp(cleanups[1].t) + CLEANUP_INTERVAL_DAYS * DayMs>>

\* the scheduled executions: ticks that found the schedule due, with the
\* clock they read (cleanup-scheduler.ts:99) in t
ScheduledWipes ==
  {i \in 1..Len(cleanups) : /\ cleanups[i].kind = "tick"
                            /\ cleanups[i].pc \in {"counting", "deleting", "updating", "done"}}

\* the time of day at offset +5:30, in ms after 00:00
timeOfDayIST(t) == (t + IST_OFFSET_MS) % DayMs

\* C20: every scheduled wipe that its tick starts without delay (within one
\* check interval of the boundary) is executed at 00:00 at offset +5:30, to
\* the granularity of the check interval, and two such wipes in a row are 2
\* days apart to the same granularity.
C20_ScheduledWipeAtMidnightIST ==
  \A i \in ScheduledWipes :
    cleanups[i].t < cleanups[i].due + CHECK_INTERVAL_MS =>
      /\ timeOfDayIST(cleanups[i].t) < CHECK_INTERVAL_MS
      /\ \A j \in ScheduledWipes :
           (j < i /\ \A k \in ScheduledWipes : ~(j < k /\ k < i)) =>
             cleanups[i].t - cleanups[j].t < CLEANUP_INTERVAL_DAYS * DayMs + CHECK_INTERVAL_MS

\* the scheduler's ticks with a storage that may fail during the wipe
NextFault ==
  \/ CleanupTick
  \/ getCleanupScheduleDone
  \/ countDone
  \/ deleteDone
  \/ clearAllDeviceDataFail
  \/ updateCleanupScheduleDone
  \/ \E dt \in CleanSteps : Advance(dt)

SpecFault == InitClean /\ [][NextFault]_vars

\* the schedule updates in the queue issued by invocation i
ScheduleUpdatesOf(i) ==
  {k \in 1..Len(dbQueue) : dbQueue[k].op = "updateCleanupSchedule" /\ dbQueue[k].id = i}

\* C16: a scheduled tick whose wipe failed with a storage error ends without
\* writing the schedule record (the failing step leaves the record as it was
\* and the tick issues no update), and a later tick that reads the record
\* while it still holds the boundary the failed tick saw, enabled, starts
\* the wipe again.
C16_FailedWipeKeepsScheduleAndRetries ==
  [][/\ \A i \in 1..Len(cleanups') :
          cleanups'[i].err =>
            /\ cleanups'[i].pc = "failed"
            /\ ScheduleUpdatesOf(i)' = {}
            /\ (i <= Len(cleanups) /\ ~cleanups[i].err) => UNCHANGED cleanupSchedule
     /\ \A i \in 1..Len(cleanups) :
          (/\ cleanups[i].pc = "getSchedule"
           /\ cleanups'[i].pc # "getSchedule"
           /\ \E j \in 1..Len(cleanups) :
                /\ cleanups[j].err
                /\ cleanupSchedule[1].isEnabled
                /\ cleanupSchedule[1].nextScheduledTime = <<cleanups[j].due>>)
          => cleanups'[i].pc = "counting"]_vars

\* C16 witness: the wipe of the first tick failed, the record still held the
\* same boundary when the next tick read it, and that tick's wipe succeeded
\* and rescheduled
C16_Witness ==
  /\ Len(cleanups) = 2
  /\ cleanups[1].err
  /\ cleanups[2].pc = "done"
  /\ cleanups[2].due = cleanups[1].due
  /\ cleanups[2].at >= cleanups[1].at + CHECK_INTERVAL_MS
  /\ cleanupSchedule[1].lastExecutionTime = <<toTimestamp(cleanups[2].t)>>

\* invocation i, a tick or a runCleanup, completes its schedule update in this step
ExecutionCompletes(i) ==
  /\ cleanups[i].kind \in {"tick", "manual"}
  /\ cleanups[i].pc = "updating"
  /\ cleanups'[i].pc = "done"

\* C6: the step that completes the schedule update of a cleanup execution
\* (scheduled tick or runCleanup) leaves the stored nextScheduledTime equal to
\* the stored lastExecutionTime plus the record's intervalDays x 24 h, however
\* late after the previous nextScheduledTime the execution ran.
C6_NextIsLastPlusInterval ==
  [][\A i \in 1..Len(cleanups) :
       ExecutionCompletes(i) =>
         /\ cleanupSchedule'[1].lastExecutionTime = <<toTimestamp(cleanups[i].t)>>
         /\ cleanupSchedule'[1].nextScheduledTime =
              <<cleanupSchedule'[1].lastExecutionTime[1]
                + cleanupSchedule'[1].intervalDays * DayMs>>]_vars

\* C6 witness: a scheduled execution that ran late has completed and the
\* stored times are one interval apart
C6_Witness ==
  \E i \in 1..Len(cleanups) :
    /\ cleanups[i].kind = "tick"
    /\ cleanups[i].pc = "done"
    /\ cleanups[i].t > cleanups[i].due
    /\ cleanupSchedule[1].lastExecutionTime = <<toTimestamp(cleanups[i].t)>>
    /\ cleanupSchedule[1].nextScheduledTime =
         <<toTimestamp(cleanups[i].t) + CLEANUP_INTERVAL_DAYS * DayMs>>

\* the invocations that are inside their wipe-and-reschedule: counting,
\* deleting, or writing the new schedule
Wiping ==
  {j \in 1..Len(cleanups) : /\ cleanups[j].kind \in {"tick", "manual"}
                            /\ cleanups[j].pc \in {"counting", "deleting", "updating"}}

\* C12: at any time at most one invocation, scheduled tick or runCleanup, is
\* executing a wipe-and-reschedule.
C12_AtMostOneWipeExecuting == Cardinality(Wiping) <= 1

\* no other wipe was in progress while invocation i ran
Alone(i) ==
  /\ cleanups[i].open = {}
  /\ \A j \in 1..Len(cleanups) : i \notin cleanups[j].open

\* C7: the step in which a runCleanup call completes returns the number of
\* readings its wipe counted (the number at the call when no other wipe ran
\* meanwhile), leaves the repository empty, and stores as nextScheduledTime
\* the clock read by the call plus intervalDays x 24 h, whether or not the
\* schedule is enabled.
C7_RunCleanupReturnsCountAndReschedules ==
  [][\A i \in 1..Len(cleanups) :
       (ExecutionCompletes(i) /\ cleanups[i].kind = "manual") =>
         /\ cleanups'[i].ret = cleanups[i].count
         /\ Alone(i) => cleanups'[i].ret = cleanups[i].atCall
         /\ deviceData' = <<>>
         /\ cleanups[i].at <= cleanups[i].t /\ cleanups[i].t <= now
         /\ cleanupSchedule'[1].nextScheduledTime =
              <<toTimestamp(cleanups[i].t) + cleanupSchedule[1].intervalDays * DayMs>>
         /\ cleanupSchedule'[1].isEnabled = cleanupSchedule[1].isEnabled]_vars

\* C7 witness: a runCleanup call that ran alone on a disabled schedule has
\* returned the number of readings there were, and the repository is empty
C7_Witness ==
  \E i \in 1..Len(cleanups) :
    /\ cleanups[i].kind = "manual"
    /\ cleanups[i].pc = "done"
    /\ Alone(i)
    /\ cleanups[i].atCall >= 2
    /\ cleanups[i].ret = cleanups[i].atCall
    /\ deviceData = <<>>
    /\ ~cleanupSchedule[1].isEnabled
    /\ cleanupSchedule[1].nextScheduledTime =
         <<toTimestamp(cleanups[i].t) + CLEANUP_INTERVAL_DAYS * DayMs>>

(* ---------------------- properties of the batcher --------------------- *)
AcceptedRids == 1..(nextRid - 1)

PersistCount(rid) == Cardinality({i \in 1..Len(deviceData) : deviceData[i].rid = rid})

BufferCount(rid) == Cardinality({i \in 1..Len(batchBuffer) : batchBuffer[i].rid = rid})

\* the readings of flush f whose createDeviceData call has not completed
PendingOf(f) ==
  IF flushes[f].done THEN {}
  ELSE {flushes[f].input[i].rid : i \in flushes[f].i..Len(flushes[f].input)}

PendingCount(rid) == Cardinality({f \in 1..Len(flushes) : rid \in PendingOf(f)})

EventIndex(type, rid) ==
  {i \in 1..Len(events) : events[i].type = type /\ events[i].rid = rid}

\* C2: while no createDeviceData call has failed, every accepted reading is in
\* exactly one place (the buffer, a batch still being written, or the
\* repository, there exactly once); a periodic flush takes the whole buffer
\* (what is in the buffer was enqueued after every reading of every batch),
\* and when it has completed all readings of its batch are in the repository.
C2_PeriodicFlushPersistsEachOnce ==
  failedRids = {} =>
    /\ \A rid \in AcceptedRids :
         PersistCount(rid) + BufferCount(rid) + PendingCount(rid) = 1
    /\ \A f \in 1..Len(flushes) :
         /\ \A r \in Rids(flushes[f].input) : \A b \in Rids(batchBuffer) : r < b
         /\ flushes[f].done =>
              /\ Rids(flushes[f].input) \subseteq Rids(deviceData)
              /\ flushes[f].successCount = Len(flushes[f].input)

\* C2 witness: a periodic flush of two readings has completed, nothing failed,
\* the repository holds exactly the accepted readings and the buffer is empty
C2_Witness ==
  /\ failedRids = {}
  /\ batchBuffer = <<>>
  /\ nextRid > 2
  /\ Rids(deviceData) = AcceptedRids
  /\ \E f \in 1..Len(flushes) :
       flushes[f].caller = "timer" /\ flushes[f].done /\ Len(flushes[f].input) >= 2

\* C3: a step that accepts a message and thereby brings the buffer to the
\* size threshold leaves the buffer empty and a flush of exactly that buffer
\* started by the message handler, its first createDeviceData call issued.
C3_FullBufferFlushesImmediately ==
  [][(nextRid' = nextRid + 1 /\ Len(batchBuffer) + 1 >= BATCH_SIZE) =>
       /\ batchBuffer' = <<>>
       /\ Len(flushes') = Len(flushes) + 1
       /\ LET fr == flushes'[Len(flushes')]
          IN  /\ fr.caller = "size"
              /\ ~fr.done
              /\ Len(fr.input) = Len(batchBuffer) + 1
              /\ SubSeq(fr.input, 1, Len(batchBuffer)) = batchBuffer
              /\ fr.input[Len(fr.input)].rid = nextRid
       /\ \E k \in 1..Len(dbQueue') : dbQueue'[k] = InsertOp(Len(flushes'))]_vars

\* C3 witness: a flush started by the size test, before any timer tick took it
C3_Witness ==
  \E f \in 1..Len(flushes) :
    flushes[f].caller = "size" /\ Len(flushes[f].input) >= BATCH_SIZE

\* C4: a reading whose persistence failed in a retryOnError=true flush is not
\* lost: when the process has exited it has been persisted, or it was part of
\* the input of a later flush.
C4_FailedReadingRetriedNotLost ==
  proc = "exited" =>
    \A f \in 1..Len(flushes) :
      (flushes[f].retryOnError /\ flushes[f].done) =>
        \A rid \in Rids(flushes[f].failedItems) :
          \/ rid \in Rids(deviceData)
          \/ \E g \in (f + 1)..Len(flushes) : rid \in Rids(flushes[g].input)

\* C8: the sensor-update broadcast of a reading precedes its enqueue, and so
\* precedes every write of it to the repository; every accepted reading is
\* broadcast and enqueued.
C8_SensorBroadcastBeforeEnqueue ==
  /\ \A rid \in AcceptedRids :
       /\ EventIndex("sensor", rid) # {}
       /\ EventIndex("enqueue", rid) # {}
  /\ \A i \in 1..Len(events) :
       events[i].type \in {"enqueue", "persist"} =>
         \E j \in 1..(i - 1) : events[j].type = "sensor" /\ events[j].rid = events[i].rid

\* C8 witness: a reading has been broadcast, enqueued and persisted
C8_Witness ==
  \E rid \in AcceptedRids :
    /\ EventIndex("sensor", rid) # {}
    /\ EventIndex("enqueue", rid) # {}
    /\ EventIndex("persist", rid) # {}

\* C9: the process exits only after graceful shutdown has stopped the timers,
\* closed the broker connections, then run the flush with retryOnError=true,
\* and that flush has completed.
C9_ExitOnlyAfterShutdownFlush ==
  proc = "exited" =>
    /\ ~batchFlushInterval
    /\ ~deviceTimeoutMonitorInterval
    /\ clients = {}
    /\ \E i \in 1..Len(events) : \E j \in (i + 1)..Len(events) :
         events[i].type = "disconnect" /\ events[j].type = "shutdownFlush"
    /\ \A f \in 1..Len(flushes) : flushes[f].caller = "disconnect" => flushes[f].done

\* the reading whose INSERT is the command in flight at the database server
InFlightAtServer ==
  IF Len(dbQueue) > 0 /\ Head(dbQueue).op = "createDeviceData"
  THEN {flushes[Head(dbQueue).f].input[flushes[Head(dbQueue).f].i].rid}
  ELSE {}

\* C10: when the process has exited after a graceful shutdown that reported
\* completion (exit code 0), every accepted reading has been persisted, unless
\* storage failed for it (or its INSERT was already sent to the server).
C10_NoReadingDroppedAtExit ==
  (proc = "exited" /\ exitCode = 0) =>
    \A rid \in AcceptedRids :
      rid \in Rids(deviceData) \cup failedRids \cup InFlightAtServer

\* a payload that is neither an object carrying a recognised field nor
\* numeric text
YieldsNoLevel(p) ==
  \/ p.form = "object" /\ DOMAIN p.fields \cap {"alcohol_level", "Index", "level", "value"} = {}
  \/ p.form = "json" /\ p.num = <<>>
  \/ p.form = "text" /\ p.num = <<>>

\* C13: the handling of a message whose payload yields no alcohol level
\* changes nothing: the latest-reading cache, the batch buffer, the flushes,
\* the device rows and the command queue (no status update is issued) stay as
\* they were, and no broadcaster is called.
C13_NoLevelMessageDropped ==
  [][\A p \in Payloads :
       (YieldsNoLevel(p) /\ handleMessage("D1", p)) =>
         UNCHANGED <<latestReadingsCache, batchBuffer, flushes, devices, dbQueue,
                     events, nextRid>>]_vars

\* C14: the handling of a payload that is a bare number sent as text accepts
\* the message, and the reading it caches and enqueues has that number as
\* its alcoholLevel.
C14_BareNumberAccepted ==
  [][\A p \in Payloads :
       (p.form \in {"json", "text"} /\ p.num # <<>> /\ parseMessage(p)) =>
         /\ nextRid' = nextRid + 1
         /\ latestReadingsCache'["D1"] # <<>>
         /\ latestReadingsCache'["D1"][1].alcoholLevel = p.num[1]]_vars

\* the readings held anywhere: cache entries, sensor broadcasts, the buffer,
\* the batches being written, and the rows of the repository
ReadingsAnywhere ==
  {latestReadingsCache[d][1] : d \in {e \in Devices : latestReadingsCache[e] # <<>>}}
  \cup {events[i] : i \in {j \in 1..Len(events) : events[j].type = "sensor"}}
  \cup Range(batchBuffer)
  \cup UNION {Range(flushes[f].input) : f \in 1..Len(flushes)}
  \cup Range(deviceData)

\* C15: every reading, as cached at ingestion, as broadcast, as enqueued and
\* as persisted, has alertStatus Normal when its alcoholLevel is below 1700,
\* Moderate Drunk from 1700 to 2499 and Completely Drunk from 2500 up.
C15_AlertStatusThresholds ==
  \A r \in ReadingsAnywhere :
    /\ r.alcoholLevel < 1700 => r.alertStatus = "Normal"
    /\ (1700 <= r.alcoholLevel /\ r.alcoholLevel <= 2499) => r.alertStatus = "Moderate Drunk"
    /\ r.alcoholLevel >= 2500 => r.alertStatus = "Completely Drunk"

\* C15 witness: a reading of exactly 1700 was broadcast and persisted as
\* Moderate Drunk and a reading of exactly 2500 was broadcast as Completely
\* Drunk
C15_Witness ==
  /\ \E i \in 1..Len(deviceData) :
       deviceData[i].alcoholLevel = 1700 /\ deviceData[i].alertStatus = "Moderate Drunk"
  /\ \E i \in 1..Len(events) :
       /\ events[i].type = "sensor"
       /\ events[i].alcoholLevel = 1700
       /\ events[i].alertStatus = "Moderate Drunk"
  /\ \E i \in 1..Len(events) :
       /\ events[i].type = "sensor"
       /\ events[i].alcoholLevel = 2500
       /\ events[i].alertStatus = "Completely Drunk"

\* the flushes whose input holds reading rid
FlushesOf(rid) == {f \in 1..Len(flushes) : rid \in Rids(flushes[f].input)}

\* C21: a flush hands each reading of its batch to the repository once (its
\* batch holds no reading twice, it has at most one createDeviceData call in
\* flight, and none once it is done); and while every flush so far ran with
\* retryOnError=false, overlapping or not, each reading is in the batch of at
\* most one flush, is not in the buffer once a flush took it, and is in the
\* repository at most once.
C21_NoSecondAttemptWithoutRetry ==
  /\ \A f \in 1..Len(flushes) :
       /\ \A i, j \in 1..Len(flushes[f].input) :
            flushes[f].input[i].rid = flushes[f].input[j].rid => i = j
       /\ Cardinality({k \in 1..Len(dbQueue) : dbQueue[k] = InsertOp(f)})
            = IF flushes[f].done THEN 0 ELSE 1
       /\ flushes[f].successCount + Len(flushes[f].failedItems)
            = IF flushes[f].done THEN Len(flushes[f].input) ELSE flushes[f].i - 1
  /\ (\A f \in 1..Len(flushes) : ~flushes[f].retryOnError) =>
       \A rid \in AcceptedRids :
         /\ Cardinality(FlushesOf(rid)) <= 1
         /\ FlushesOf(rid) # {} => BufferCount(rid) = 0
         /\ PersistCount(rid) <= 1

\* C21 witness: two retryOnError=false flushes overlap, one started by the
\* timer and one by the size test or the timer, a reading of the first has
\* failed, and that reading is nowhere but in the batch that failed
C21_Witness ==
  /\ \A f \in 1..Len(flushes) : ~flushes[f].retryOnError
  /\ \E f, g \in 1..Len(flushes) :
       /\ f # g
       /\ ~flushes[f].done /\ ~flushes[g].done
       /\ \E rid \in Rids(flushes[f].failedItems) :
            /\ FlushesOf(rid) = {f}
            /\ BufferCount(rid) = 0
            /\ PersistCount(rid) = 0

\* C25: the logDeviceOfflineEvent call that follows an offline write always
\* ends with the OfflineEvent appended: the step that takes the call out of
\* the queue adds one event to the log.
C25_OfflineTransitionLogged ==
  [][Cardinality(LogOps(dbQueue')) < Cardinality(LogOps(dbQueue)) =>
       /\ Len(offlineEvents') = Len(offlineEvents) + 1
       /\ offlineEvents'[Len(offlineEvents')].deviceId = Head(dbQueue).dev]_vars

\* C27: a step that accepts a message from a device issues, as its last
\* storage call, the update of that device to status online with lastSeen the
\* time of the message; the step that completes such an update leaves the
\* row online with that lastSeen, whatever the row held, and broadcasts the
\* device once.
C27_AcceptedMessageMarksOnline ==
  [][/\ nextRid' = nextRid + 1 =>
          \E d \in Devices :
            /\ latestReadingsCache'[d] # <<>>
            /\ latestReadingsCache'[d][1].timestamp = now
            /\ \E i \in 1..Len(events') :
                 /\ events'[i] \notin Range(events)
                 /\ events'[i].type = "sensor"
                 /\ events'[i].rid = nextRid
                 /\ events'[i].dev = d
                 /\ events'[i].timestamp = now
            /\ dbQueue' # <<>>
            /\ dbQueue'[Len(dbQueue')]
                 = UpdateDeviceOp(d, [status |-> "online", lastSeen |-> <<now>>], ThenBroadcast)
     /\ (/\ dbQueue # <<>>
         /\ Head(dbQueue).op = "updateDevice"
         /\ Head(dbQueue).then.k = "broadcast"
         /\ Head(dbQueue).updates.status = "online"
         /\ dbQueue' = Tail(dbQueue)) =>
          /\ devices'[Head(dbQueue).dev].status = "online"
          /\ "lastSeen" \in DOMAIN Head(dbQueue).updates
          /\ devices'[Head(dbQueue).dev].lastSeen = Head(dbQueue).updates.lastSeen
          /\ \A e \in Devices \ {Head(dbQueue).dev} : devices'[e] = devices[e]
          /\ events' = Append(events, DeviceEvent(Head(dbQueue).dev, "online"))]_vars

\* C27 witness: a message of D1 accepted after time 0 has had its update
\* completed: the row is online with lastSeen the time of the message, and
\* the device was broadcast after the reading
C27_Witness ==
  \E i, j \in 1..Len(events) :
    /\ i < j
    /\ events[i].type = "sensor" /\ events[i].dev = "D1"
    /\ events[i].timestamp > 0
    /\ events[j] = DeviceEvent("D1", "online")
    /\ devices["D1"].status = "online"
    /\ devices["D1"].lastSeen = <<events[i].timestamp>>
    /\ \A k \in 1..Len(dbQueue) : dbQueue[k].op # "updateDevice"

\* the offline updates issued by the error handlers and not yet completed
ErrorOps(q) == {i \in 1..Len(q) : q[i].op = "updateDevice" /\ q[i].then.k = "error"}

\* C28: an error that is neither of the timeout class nor of the protocol
\* class makes the handler issue the update of the device to offline with
\* lastSeen now and leaves nothing scheduled: no reconnect timer, no ladder
\* attempt, no further connection attempt of the client.  The update leaves
\* the row offline with that lastSeen, and the OfflineEvent is appended and
\* the device broadcast after it.
C28_OtherErrorMarksOfflineOnly ==
  [][/\ Cardinality(ErrorOps(dbQueue')) > Cardinality(ErrorOps(dbQueue)) =>
          \E d \in Devices :
            /\ dbQueue' = Append(dbQueue, markOfflineOp(d, ThenError))
            /\ conns[d].pc = "connecting"
            /\ conns'[d].pc = "ended"
            /\ conns'[d].ladder = conns[d].ladder
            /\ conns'[d].attempts = conns[d].attempts
     /\ (/\ dbQueue # <<>>
         /\ dbQueue' # dbQueue /\ Len(dbQueue') <= Len(dbQueue)
         /\ Head(dbQueue).then.k = "error"
         /\ Head(dbQueue).op = "updateDevice") =>
          /\ devices'[Head(dbQueue).dev].status = "offline"
          /\ devices'[Head(dbQueue).dev].lastSeen = Head(dbQueue).updates.lastSeen
          /\ dbQueue' = Append(Tail(dbQueue), LogOfflineOp(Head(dbQueue).dev, now, ThenError))
     /\ (/\ dbQueue # <<>>
         /\ dbQueue' # dbQueue /\ Len(dbQueue') <= Len(dbQueue)
         /\ Head(dbQueue).then.k = "error"
         /\ Head(dbQueue).op = "logDeviceOfflineEvent") =>
          /\ Len(offlineEvents') = Len(offlineEvents) + 1
          /\ offlineEvents'[Len(offlineEvents')].deviceId = Head(dbQueue).dev
          /\ events' = Append(events, DeviceEvent(Head(dbQueue).dev, "offline"))]_vars

\* C29: whenever an attempt is in flight, an error of the timeout class on
\* it ends the client, takes it out of the registry and leaves the 5 s
\* timer pending that connects again; it writes nothing to storage.
C29_TimeoutErrorReconnects ==
  \A d \in Devices :
    conns[d].pc = "connecting" =>
      LET r == onError(conns[d], d, "timeout", dbQueue, clients)
      IN  /\ r.c.pc = "reconnectWait"
          /\ d \notin r.cl
          /\ r.q = dbQueue

\* C30: whenever a client is connected, whichever way it was opened, its
\* disconnection makes the handler issue the update of the device to status
\* waiting with lastSeen now, to be broadcast when it completes, and nothing
\* else: no OfflineEvent is requested.
C30_DisconnectSetsWaiting ==
  \A d \in Devices :
    conns[d].pc = "connected" =>
      onDisconnect(conns[d], d, dbQueue)
        = Append(dbQueue, UpdateDeviceOp(d, [status |-> "waiting", lastSeen |-> <<now>>],
                                         ThenBroadcast))

\* C31: the step that starts a flush takes the whole buffer as its batch and
\* leaves the buffer empty; the completion of a createDeviceData call,
\* failed or not, moves the flush on to the next reading of its batch until
\* the last one, and adds one to the returned count exactly when a row was
\* persisted; a flush with retryOnError = false never changes the buffer
\* after its start, so failed readings do not come back and the readings
\* enqueued meanwhile stay for the next flush.
C31_FlushSwapsAndDropsFailures ==
  [][/\ Len(flushes') = Len(flushes) + 1 =>
          LET fr == flushes'[Len(flushes')]
          IN  /\ batchBuffer' = <<>>
              /\ fr.input # <<>>
              /\ Len(fr.input) >= Len(batchBuffer)
              /\ SubSeq(fr.input, 1, Len(batchBuffer)) = batchBuffer
              /\ fr.i = 1 /\ fr.successCount = 0 /\ fr.failedItems = <<>>
     /\ \A f \in 1..Len(flushes) :
          flushes'[f] # flushes[f] =>
            /\ flushes'[f].input = flushes[f].input
            /\ IF flushes[f].i < Len(flushes[f].input)
               THEN flushes'[f].i = flushes[f].i + 1 /\ ~flushes'[f].done
               ELSE flushes'[f].done
            /\ flushes'[f].successCount - flushes[f].successCount
                 = Len(deviceData') - Len(deviceData)
            /\ Len(flushes'[f].failedItems) - Len(flushes[f].failedItems)
                 = 1 - (Len(deviceData') - Len(deviceData))
            /\ ~flushes[f].retryOnError => batchBuffer' = batchBuffer]_vars

\* C31 witness: a flush with retryOnError = false has returned 1 after its
\* first reading failed and a later one was persisted; the failed reading is
\* neither in the buffer nor persisted, and a reading enqueued during the
\* flush is in the buffer
C31_Witness ==
  \E f \in 1..Len(flushes) :
    /\ flushes[f].done /\ ~flushes[f].retryOnError
    /\ flushes[f].successCount = 1
    /\ Len(flushes[f].input) = 2
    /\ flushes[f].failedItems = <<flushes[f].input[1]>>
    /\ BufferCount(flushes[f].input[1].rid) = 0
    /\ PersistCount(flushes[f].input[1].rid) = 0
    /\ PersistCount(flushes[f].input[2].rid) = 1
    /\ \E i \in 1..Len(batchBuffer) : batchBuffer[i].rid \notin Rids(flushes[f].input)
    /\ \A g \in 1..Len(flushes) : ~flushes[g].retryOnError

\* C32: while disconnect() runs, no step starts a connection attempt or adds
\* a client to the registry, and when it has returned the registry is empty
\* and both periodic timers are stopped.
C32_NoConnectionAfterDisconnect ==
  [][/\ Disconnecting =>
          /\ \A d \in Devices : conns'[d].attempts = conns[d].attempts
          /\ clients' \subseteq clients
     /\ (Disconnecting /\ ~Disconnecting') =>
          /\ clients' = {}
          /\ ~batchFlushInterval' /\ ~deviceTimeoutMonitorInterval']_vars

\* C33: the record is created by start() only when there is none, enabled,
\* with no execution time and with a next time later than now at 00:00 of
\* the +5:30 offset; the initialisation of start() changes no record that
\* exists; and there is never more than one record or more than one timer
\* that was set and not cleared.
C33_StartCreatesOnceOneTimer ==
  [][/\ (dbQueue # <<>> /\ Head(dbQueue).op = "createCleanupSchedule"
         /\ cleanupSchedule' # cleanupSchedule) =>
          /\ cleanupSchedule = <<>>
          /\ Len(cleanupSchedule') = 1
          /\ cleanupSchedule'[1].isEnabled
          /\ cleanupSchedule'[1].lastExecutionTime = <<>>
          /\ cleanupSchedule'[1].nextScheduledTime # <<>>
          /\ cleanupSchedule'[1].nextScheduledTime[1] > now
          /\ timeOfDayIST(cleanupSchedule'[1].nextScheduledTime[1]) = 0
     /\ (dbQueue # <<>> /\ dbQueue' # dbQueue /\ Len(dbQueue') <= Len(dbQueue)
         /\ cleanups[Head(dbQueue).id].kind = "start"
         /\ cleanups[Head(dbQueue).id].pc \in {"initRead", "creating"}
         /\ cleanupSchedule # <<>>) =>
          cleanupSchedule' = cleanupSchedule
     /\ Len(cleanupSchedule') <= 1
     /\ ActiveTimers' <= 1]_vars

\* C34: of two scheduled executions, the later one reads its clock no less
\* than intervalDays x 24 h after the earlier one read its own, to the second
\* to which the times are stored.
C34_ScheduledWipesOneIntervalApart ==
  \A i, j \in ScheduledWipes :
    i < j => toTimestamp(cleanups[j].t)
               >= toTimestamp(cleanups[i].t) + CLEANUP_INTERVAL_DAYS * DayMs

\* C35: no step of a cleanup execution, scheduled or manual, changes the
\* OfflineEvents, a device record or the schedule's isEnabled flag; the only
\* rows it deletes are the readings.
C35_WipeDeletesReadingsOnly ==
  [][cleanups' # cleanups =>
       /\ offlineEvents' = offlineEvents
       /\ devices' = devices
       /\ Len(cleanupSchedule') = Len(cleanupSchedule)
       /\ \A k \in 1..Len(cleanupSchedule) :
            cleanupSchedule'[k].isEnabled = cleanupSchedule[k].isEnabled
       /\ deviceData' # deviceData => deviceData' = <<>>]_vars

\* C35 witness: a scheduled execution that deleted readings and a manual one
\* have both completed; the repository holds no reading, the OfflineEvent
\* and the device records are there and the schedule is still enabled
C35_Witness ==
  /\ \E i, j \in 1..Len(cleanups) :
       /\ cleanups[i].kind = "tick" /\ cleanups[i].pc = "done" /\ cleanups[i].count >= 2
       /\ cleanups[j].kind = "manual" /\ cleanups[j].pc = "done"
  /\ deviceData = <<>>
  /\ Len(offlineEvents) = 1
  /\ devices["D1"].status = "online" /\ devices["D2"].status = "offline"
  /\ ~devices["D2"].isActive
  /\ cleanupSchedule[1].isEnabled
  /\ cleanupSchedule[1].lastExecutionTime # <<>>

\* C36: a device whose status is online has a lastSeen, and every update
\* that is to set a status to online carries a lastSeen.
C36_OnlineHasLastSeen ==
  /\ \A d \in Devices : devices[d].status = "online" => devices[d].lastSeen # <<>>
  /\ \A k \in 1..Len(dbQueue) :
       (/\ dbQueue[k].op = "updateDevice"
        /\ "status" \in DOMAIN dbQueue[k].updates
        /\ dbQueue[k].updates.status = "online") =>
         /\ "lastSeen" \in DOMAIN dbQueue[k].updates
         /\ dbQueue[k].updates.lastSeen # <<>>

\* C36 witness: D1 had no lastSeen when the server started; it was set
\* offline by a sweep after its connection had set it online, and a message
\* has set it online again with the time of the message
C36_Witness ==
  /\ OfflineEventsOf("D1") # {}
  /\ \E i, j, k \in 1..Len(events) :
       /\ i < j /\ j < k
       /\ events[i] = DeviceEvent("D1", "online")
       /\ events[j] = DeviceEvent("D1", "offline")
       /\ events[k] = DeviceEvent("D1", "online")
  /\ latestReadingsCache["D1"] # <<>>
  /\ devices["D1"].status = "online"
  /\ devices["D1"].lastSeen = <<latestReadingsCache["D1"][1].timestamp>>
  /\ devices["D2"].lastSeen = <<>>

\* C37: every persisted reading carries the timestamp that its message was
\* given at ingestion, the one sent in the sensor broadcast.
C37_PersistedTimestampIsIngestionTime ==
  \A i \in 1..Len(deviceData) :
    \A k \in 1..Len(events) :
      (events[k].type = "sensor" /\ events[k].rid = deviceData[i].rid) =>
        deviceData[i].timestamp = events[k].timestamp

\* C38: the write of a sweep never leaves a device offline whose lastSeen
\* is within the liveness threshold of the time of the write, and a sweep
\* appends no OfflineEvent for a device in that state.
C38_SweepKeepsFresherState ==
  [][\A s \in 1..Len(sweeps) :
       /\ (sweeps[s].pc = "updating" /\ sweeps'[s].pc = "logging") =>
            LET d == Head(dbQueue).dev
            IN  ~(/\ devices'[d].status = "offline"
                  /\ now - lastSeenTime(devices'[d]) <= DEVICE_OFFLINE_THRESHOLD_MS)
       /\ (sweeps[s].pc = "logging" /\ Len(offlineEvents') > Len(offlineEvents)) =>
            LET d == Head(dbQueue).dev
            IN  now - lastSeenTime(devices[d]) > DEVICE_OFFLINE_THRESHOLD_MS]_vars

\* C39: while no createDeviceData call has failed, the rows of one device
\* are in the repository in the order in which their readings were ingested.
C39_PersistedInIngestionOrder ==
  failedRids = {} =>
    \A i, j \in 1..Len(deviceData) :
      (i < j /\ deviceData[i].deviceId = deviceData[j].deviceId) =>
        deviceData[i].rid < deviceData[j].rid

(* ------------- the wipe and the reschedule of one execution ------------ *)
\* storage.ts:1058-1067, cleanup-scheduler.ts:129-131 and 195-198: the UPDATE
\* of the schedule record fails with a storage error, which
\* updateCleanupSchedule logs and throws again; the record is left as it
\* was and the catch block of the invocation ends it, runCleanup returning 0
updateCleanupScheduleFail ==
  /\ Running
  /\ Len(dbQueue) > 0
  /\ Head(dbQueue).op = "updateCleanupSchedule"
  /\ LET i == Head(dbQueue).id
         r == onWipeError(cleanups[i], i, Tail(dbQueue))
     IN  /\ cleanups' = [cleanups EXCEPT ![i] = r.cl]
         /\ dbQueue' = r.q
         /\ intervalId' = timerAfter(cleanups[i])
  /\ UNCHANGED <<cleanupSchedule, deviceData>>
  /\ cleanFrame

\* ticks and runCleanup calls with a storage that may fail at the wipe or at
\* the schedule update
NextAtomic ==
  \/ CleanupTick
  \/ runCleanup
  \/ getCleanupScheduleDone
  \/ countDone
  \/ deleteDone
  \/ clearAllDeviceDataFail
  \/ updateCleanupScheduleDone
  \/ updateCleanupScheduleFail
  \/ \E dt \in CleanSteps : Advance(dt)

SpecAtomic == InitClean /\ [][NextAtomic]_vars

\* C40: the step that ends a tick or a runCleanup call whose wipe has deleted
\* readings leaves the record with the execution's time as lastExecutionTime
\* and that time plus intervalDays x 24 h as nextScheduledTime, and a
\* runCleanup call ended by it returns the number its wipe deleted.
C40_WipeAndRescheduleTogether ==
  [][\A i \in 1..Len(cleanups) :
       (/\ cleanups[i].kind \in {"tick", "manual"}
        /\ cleanups[i].pc = "updating"
        /\ cleanups'[i].pc # "updating"
        /\ cleanups[i].count > 0) =>
         /\ cleanupSchedule'[1].lastExecutionTime = <<toTimestamp(cleanups[i].t)>>
         /\ cleanupSchedule'[1].nextScheduledTime =
              <<toTimestamp(cleanups[i].t) + cleanupSchedule'[1].intervalDays * DayMs>>
         /\ cleanups[i].kind = "manual" => cleanups'[i].ret = cleanups[i].count]_vars

====
